---- MODULE Spec2Model ----
(***************************************************************************)
(* Sensor-to-emotion state engine of the SentimoTch virtual pet.           *)
(*                                                                         *)
(*   tamagotchi : the SmartTamagotchi object (src/tamagotchi_v1.py)        *)
(*   hardware : the HardwareManager object (hardware/hardware_manager.py)  *)
(*         with its sensor snapshot, its ports and its actuators, the      *)
(*         position of its sampling thread and of a caller of cleanup()    *)
(*   now : the wall clock read by time.time(), in whole seconds            *)
(*   call : the operation performed last and its dt argument               *)
(*   seen : the motion flags the previous update call read                 *)
(*   budget : the number of operations still to be explored                *)
(*   port : a sensor or actuator port object constructed on its own        *)
(*                                                                         *)
(* Units.  The six stats, the acceleration and the message timer are kept  *)
(* in tenths (happiness 80 is 800, 0.3*dt is 3*dt, z = 9.8 is 98); the     *)
(* temperature is kept in hundredths of a degree (25.01 is 2501); light,   *)
(* sound and servo angles are whole numbers; dt is in whole seconds; the   *)
(* LED brightness is in tenths (0.3 is 3).                                 *)
(***************************************************************************)
EXTENDS Integers, Sequences, FiniteSets, TLC

VARIABLES tamagotchi, hardware, now, call, seen, budget, port, lcd_game, sad

vars == <<tamagotchi, hardware, now, call, seen, budget, port, lcd_game, sad>>

\* ------------------------------------------------------------------ bounds
\* Number of operations explored from the constructed state.
MaxSteps == 4

\* Number of handler runs of the button+LED variant explored from its start.
MaxSadSteps == 3
\* Number of operations explored from a sampled mid-life state.
MaxAnySteps == 1

\* ------------------------------------------------------- program constants
idle_timeout == 300
neglect_timeout == 600
preferred_temp_min == 18 * 100
preferred_temp_max == 26 * 100

Min(a, b) == IF a < b THEN a ELSE b
Max(a, b) == IF a > b THEN a ELSE b
Abs(a) == IF a < 0 THEN 0 - a ELSE a

EmotionState == {"HAPPY", "SAD", "ANGRY", "SLEEPY", "EXCITED", "NEUTRAL",
                 "COLD", "HOT", "SCARED", "PLAYFUL"}

\* Tone frequencies the pet engine asks the buzzer for.
Frequencies == {400, 600, 800, 1000}

\* ------------------------------------------------------- sampled inputs
\* dt values handed to update(dt), seconds.
DtSet == {1, 100}
\* Amounts by which the wall clock advances between operations, seconds.
TimeJumps == {301, 1800, 1801}
\* Values given to the simulated light / temperature / sound ports.
LightSet == {0, 50, 51, 200, 201, 600, 601}
TempSet == {500, 501, 1500, 1501, 2500, 2501, 3001}
SoundSet == {81}
\* Outcomes of random.randint(30, 150).
ServoAngles == {30, 150}
\* Outcomes of the random motion injection (x, y in [-2,2], z in [8,12]).
InjectSet == {[injected |-> TRUE, x |-> 20, y |-> 20, z |-> 120],
              [injected |-> TRUE, x |-> 0, y |-> -10, z |-> 100],
              [injected |-> TRUE, x |-> 0, y |-> 0, z |-> 110]}

\* ------------------------------------------------------------ actuators
\* Buzzer.play: a simulated buzzer has no state; the tones it was asked to
\* play are counted per frequency.
play_sound(s, frequency) ==
    [s EXCEPT !.hardware.buzzer[frequency] = @ + 1]

\* ServoMotor.move on a simulated port records the angle as given.
move_servo(s, angle) ==
    [s EXCEPT !.hardware.servo.sim_angle = angle]

\* LED.set_color on a simulated port records colour and brightness.
set_led_color(s, color, brightness) ==
    [s EXCEPT !.hardware.led = [sim_color |-> color, sim_brightness |-> brightness]]

\* -------------------------------------------------------- classification
\* get_environment_state with the DAY threshold taken as >= 600.
get_environment_state_inclusive(h) ==
    IF ~h.simulation
    THEN LET light == h.sensor_data.light_level
         IN  IF light >= 600 THEN "DAY"
             ELSE IF light > 200 THEN "DUSK"
             ELSE IF light > 50 THEN "DAWN"
             ELSE "NIGHT"
    ELSE h.sim_time

get_environment_state(h) ==
    IF ~h.simulation
    THEN LET light == h.sensor_data.light_level
         IN  IF light > 600 THEN "DAY"
             ELSE IF light > 200 THEN "DUSK"
             ELSE IF light > 50 THEN "DAWN"
             ELSE "NIGHT"
    ELSE h.sim_time

\* get_season with the SUMMER threshold taken as >= 25.
get_season_inclusive(h) ==
    IF ~h.simulation
    THEN LET temp == h.sensor_data.temperature
         IN  IF temp >= 25 * 100 THEN "SUMMER"
             ELSE IF temp > 15 * 100 THEN "SPRING"
             ELSE IF temp > 5 * 100 THEN "AUTUMN"
             ELSE "WINTER"
    ELSE h.sim_season

get_season(h) ==
    IF ~h.simulation
    THEN LET temp == h.sensor_data.temperature
         IN  IF temp > 25 * 100 THEN "SUMMER"
             ELSE IF temp > 15 * 100 THEN "SPRING"
             ELSE IF temp > 5 * 100 THEN "AUTUMN"
             ELSE "WINTER"
    ELSE h.sim_season

\* ------------------------------------------------------ interaction API
\* Each handler maps the pair s = [tamagotchi, hardware] read at time t to the pair it
\* leaves behind.
\* feed without the cap on hunger.
feed_unclamped(s, t) ==
    play_sound(
      [s EXCEPT !.tamagotchi.hunger = @ + 300,
                !.tamagotchi.happiness = Min(1000, @ + 100),
                !.tamagotchi.health = Min(1000, @ + 50),
                !.tamagotchi.last_fed = t,
                !.tamagotchi.last_interaction = t,
                !.tamagotchi.message = "Yummy! Thank you for the delicious food!",
                !.tamagotchi.message_timer = 30],
      600)

\* feed that forgets to stamp last_fed.
feed_unstamped(s, t) ==
    play_sound(
      [s EXCEPT !.tamagotchi.hunger = Min(1000, @ + 300),
                !.tamagotchi.happiness = Min(1000, @ + 100),
                !.tamagotchi.health = Min(1000, @ + 50),
                !.tamagotchi.last_interaction = t,
                !.tamagotchi.message = "Yummy! Thank you for the delicious food!",
                !.tamagotchi.message_timer = 30],
      600)

feed(s, t) ==
    play_sound(
      [s EXCEPT !.tamagotchi.hunger = Min(1000, @ + 300),
                !.tamagotchi.happiness = Min(1000, @ + 100),
                !.tamagotchi.health = Min(1000, @ + 50),
                !.tamagotchi.last_fed = t,
                !.tamagotchi.last_interaction = t,
                !.tamagotchi.message = "Yummy! Thank you for the delicious food!",
                !.tamagotchi.message_timer = 30],
      600)

pet(s, t) ==
    play_sound(
      [s EXCEPT !.tamagotchi.happiness = Min(1000, @ + 200),
                !.tamagotchi.social = Min(1000, @ + 150),
                !.tamagotchi.comfort = Min(1000, @ + 100),
                !.tamagotchi.last_interaction = t,
                !.tamagotchi.message = "That feels wonderful! I love you so much!",
                !.tamagotchi.message_timer = 30],
      800)

\* play that also takes 10 off hunger.
play_hungry(s, t) ==
    move_servo(
      play_sound(
        [s EXCEPT !.tamagotchi.happiness = Min(1000, @ + 250),
                  !.tamagotchi.social = Min(1000, @ + 200),
                  !.tamagotchi.hunger = Max(0, @ - 100),
                  !.tamagotchi.energy = Max(0, @ - 150),
                  !.tamagotchi.last_interaction = t,
                  !.tamagotchi.message = "Playing is the best! Let's do it again!",
                  !.tamagotchi.message_timer = 30,
                  !.tamagotchi.emotion = "PLAYFUL"],
        1000),
      90)

play(s, t) ==
    move_servo(
      play_sound(
        [s EXCEPT !.tamagotchi.happiness = Min(1000, @ + 250),
                  !.tamagotchi.social = Min(1000, @ + 200),
                  !.tamagotchi.energy = Max(0, @ - 150),
                  !.tamagotchi.last_interaction = t,
                  !.tamagotchi.message = "Playing is the best! Let's do it again!",
                  !.tamagotchi.message_timer = 30,
                  !.tamagotchi.emotion = "PLAYFUL"],
        1000),
      90)

\* put_to_sleep without the cap on energy.
put_to_sleep_unclamped(s, t) ==
    play_sound(
      [s EXCEPT !.tamagotchi.sleep_mode = TRUE,
                !.tamagotchi.energy = @ + 300,
                !.tamagotchi.last_interaction = t,
                !.tamagotchi.message = "Goodnight! Sweet dreams!",
                !.tamagotchi.message_timer = 30,
                !.tamagotchi.emotion = "SLEEPY"],
      400)

put_to_sleep(s, t) ==
    play_sound(
      [s EXCEPT !.tamagotchi.sleep_mode = TRUE,
                !.tamagotchi.energy = Min(1000, @ + 300),
                !.tamagotchi.last_interaction = t,
                !.tamagotchi.message = "Goodnight! Sweet dreams!",
                !.tamagotchi.message_timer = 30,
                !.tamagotchi.emotion = "SLEEPY"],
      400)

\* wake_up without the sleep_mode guard.
wake_up_unguarded(s) ==
    play_sound(
      [s EXCEPT !.tamagotchi.sleep_mode = FALSE,
                !.tamagotchi.energy = Min(1000, @ + 100),
                !.tamagotchi.happiness = Min(1000, @ + 50),
                !.tamagotchi.message = "Good morning! I feel refreshed!",
                !.tamagotchi.message_timer = 30,
                !.tamagotchi.emotion = "HAPPY"],
      800)

wake_up(s) ==
    IF s.tamagotchi.sleep_mode
    THEN play_sound(
           [s EXCEPT !.tamagotchi.sleep_mode = FALSE,
                     !.tamagotchi.energy = Min(1000, @ + 100),
                     !.tamagotchi.happiness = Min(1000, @ + 50),
                     !.tamagotchi.message = "Good morning! I feel refreshed!",
                     !.tamagotchi.message_timer = 30,
                     !.tamagotchi.emotion = "HAPPY"],
           800)
    ELSE s

\* ------------------------------------------------------------- update(dt)
\* Message timer countdown (the animation, blink and scale timers are
\* cosmetic and carry no state the engine reads back).
update_message_timer(s, dt) ==
    IF s.tamagotchi.message_timer > 0
    THEN [s EXCEPT !.tamagotchi.message_timer = @ - 10 * dt]
    ELSE s

\* The pickup branch made level-triggered: the reward is paid on every
\* update that reads is_picked_up.
process_pickup_level(s, sensor_data, current_time) ==
    IF sensor_data.is_picked_up
    THEN play_sound(
           [s EXCEPT !.tamagotchi.message = "Wheee! Thanks for picking me up!",
                     !.tamagotchi.message_timer = 20,
                     !.tamagotchi.happiness = Min(1000, @ + 50),
                     !.tamagotchi.social = Min(1000, @ + 30),
                     !.tamagotchi.last_interaction = current_time,
                     !.tamagotchi.pickup_message_shown = TRUE],
           800)
    ELSE [s EXCEPT !.tamagotchi.pickup_message_shown = FALSE]

\* The pickup branch made one-shot by clearing the flag in the snapshot
\* once the reward is paid.
process_pickup_consuming(s, sensor_data, current_time) ==
    IF sensor_data.is_picked_up
    THEN IF ~s.tamagotchi.pickup_message_shown
         THEN play_sound(
                [s EXCEPT !.tamagotchi.message = "Wheee! Thanks for picking me up!",
                          !.tamagotchi.message_timer = 20,
                          !.tamagotchi.happiness = Min(1000, @ + 50),
                          !.tamagotchi.social = Min(1000, @ + 30),
                          !.tamagotchi.last_interaction = current_time,
                          !.tamagotchi.pickup_message_shown = TRUE,
                          !.hardware.sensor_data.is_picked_up = FALSE],
                800)
         ELSE s
    ELSE [s EXCEPT !.tamagotchi.pickup_message_shown = FALSE]

\* The is_picked_up branch of _process_movement_detection.
process_pickup(s, sensor_data, current_time) ==
    IF sensor_data.is_picked_up
    THEN IF ~s.tamagotchi.pickup_message_shown
         THEN play_sound(
                [s EXCEPT !.tamagotchi.message = "Wheee! Thanks for picking me up!",
                          !.tamagotchi.message_timer = 20,
                          !.tamagotchi.happiness = Min(1000, @ + 50),
                          !.tamagotchi.social = Min(1000, @ + 30),
                          !.tamagotchi.last_interaction = current_time,
                          !.tamagotchi.pickup_message_shown = TRUE],
                800)
         ELSE s
    ELSE [s EXCEPT !.tamagotchi.pickup_message_shown = FALSE]

\* The shake_detected branch; angle is the outcome of random.randint(30, 150).
process_shake(s, sensor_data, current_time, angle) ==
    IF sensor_data.shake_detected
    THEN IF ~s.tamagotchi.shake_message_shown
         THEN move_servo(
                play_sound(
                  [s EXCEPT !.tamagotchi.message = "That's fun! Shake me more!",
                            !.tamagotchi.message_timer = 20,
                            !.tamagotchi.happiness = Min(1000, @ + 80),
                            !.tamagotchi.energy = Max(0, @ - 50),
                            !.tamagotchi.emotion = "PLAYFUL",
                            !.tamagotchi.last_interaction = current_time,
                            !.tamagotchi.shake_message_shown = TRUE],
                  1000),
                angle)
         ELSE s
    ELSE [s EXCEPT !.tamagotchi.shake_message_shown = FALSE]

\* The idle / neglect branch.
process_idle(s, sensor_data, current_time) ==
    LET time_since_movement == current_time - sensor_data.last_movement
    IN  IF time_since_movement > idle_timeout /\ ~s.tamagotchi.sleep_mode
        THEN IF time_since_movement > neglect_timeout
             THEN [s EXCEPT !.tamagotchi.emotion = "SAD",
                            !.tamagotchi.message = "I feel lonely... Please interact with me!",
                            !.tamagotchi.message_timer = 30,
                            !.tamagotchi.social = Max(0, @ - 10)]
             ELSE [s EXCEPT !.tamagotchi.emotion = "SLEEPY"]
        ELSE s

process_movement_detection(s, sensor_data, current_time, angle) ==
    process_idle(
      process_shake(
        process_pickup(s, sensor_data, current_time),
        sensor_data, current_time, angle),
      sensor_data, current_time)

\* The temperature branch with the edges of the preferred band, 18 and 26
\* degrees, counted as outside it.
process_temperature_open_band(s, temp) ==
    IF temp <= preferred_temp_min
    THEN LET c == [s EXCEPT !.tamagotchi.comfort = Max(0, @ - 5)]
         IN  IF temp < 10 * 100
             THEN [c EXCEPT !.tamagotchi.emotion = "COLD",
                            !.tamagotchi.message = "Brrr! It's so cold!",
                            !.tamagotchi.message_timer = 20]
             ELSE c
    ELSE IF temp >= preferred_temp_max
    THEN LET c == [s EXCEPT !.tamagotchi.comfort = Max(0, @ - 5)]
         IN  IF temp > 30 * 100
             THEN [c EXCEPT !.tamagotchi.emotion = "HOT",
                            !.tamagotchi.message = "It's too hot! I need some shade!",
                            !.tamagotchi.message_timer = 20]
             ELSE c
    ELSE [s EXCEPT !.tamagotchi.comfort = Min(1000, @ + 2)]

\* The temperature branch of _process_environmental_conditions.
process_temperature(s, temp) ==
    IF temp < preferred_temp_min
    THEN LET c == [s EXCEPT !.tamagotchi.comfort = Max(0, @ - 5)]
         IN  IF temp < 10 * 100
             THEN [c EXCEPT !.tamagotchi.emotion = "COLD",
                            !.tamagotchi.message = "Brrr! It's so cold!",
                            !.tamagotchi.message_timer = 20]
             ELSE c
    ELSE IF temp > preferred_temp_max
    THEN LET c == [s EXCEPT !.tamagotchi.comfort = Max(0, @ - 5)]
         IN  IF temp > 30 * 100
             THEN [c EXCEPT !.tamagotchi.emotion = "HOT",
                            !.tamagotchi.message = "It's too hot! I need some shade!",
                            !.tamagotchi.message_timer = 20]
             ELSE c
    ELSE [s EXCEPT !.tamagotchi.comfort = Min(1000, @ + 2)]

\* The auto-sleep / auto-wake branch with auto-sleep at any energy.
process_day_night_any_energy(s) ==
    LET env_state == get_environment_state(s.hardware)
    IN  IF env_state = "NIGHT" /\ ~s.tamagotchi.sleep_mode
        THEN [s EXCEPT !.tamagotchi.sleep_mode = TRUE,
                       !.tamagotchi.message = "It's dark and I'm tired. Time for sleep!",
                       !.tamagotchi.message_timer = 30,
                       !.tamagotchi.emotion = "SLEEPY"]
        ELSE IF env_state = "DAY" /\ s.tamagotchi.sleep_mode
        THEN [s EXCEPT !.tamagotchi.sleep_mode = FALSE,
                       !.tamagotchi.message = "Good morning! The sun is shining!",
                       !.tamagotchi.message_timer = 30,
                       !.tamagotchi.energy = Min(1000, @ + 200),
                       !.tamagotchi.emotion = "HAPPY"]
        ELSE s

\* The auto-sleep / auto-wake branch.
process_day_night(s) ==
    LET env_state == get_environment_state(s.hardware)
    IN  IF env_state = "NIGHT" /\ ~s.tamagotchi.sleep_mode
        THEN IF s.tamagotchi.energy < 500
             THEN [s EXCEPT !.tamagotchi.sleep_mode = TRUE,
                            !.tamagotchi.message = "It's dark and I'm tired. Time for sleep!",
                            !.tamagotchi.message_timer = 30,
                            !.tamagotchi.emotion = "SLEEPY"]
             ELSE s
        ELSE IF env_state = "DAY" /\ s.tamagotchi.sleep_mode
        THEN [s EXCEPT !.tamagotchi.sleep_mode = FALSE,
                       !.tamagotchi.message = "Good morning! The sun is shining!",
                       !.tamagotchi.message_timer = 30,
                       !.tamagotchi.energy = Min(1000, @ + 200),
                       !.tamagotchi.emotion = "HAPPY"]
        ELSE s

\* The loud-sound branch.
process_sound(s, sound) ==
    IF sound > 80
    THEN [s EXCEPT !.tamagotchi.emotion = "SCARED",
                   !.tamagotchi.message = "That was loud! I'm scared!",
                   !.tamagotchi.message_timer = 20,
                   !.tamagotchi.happiness = Max(0, @ - 50)]
    ELSE s

process_environmental_conditions(s, sensor_data) ==
    process_sound(
      process_day_night(
        process_temperature(s, sensor_data.temperature)),
      sensor_data.sound_level)

\* _process_time_based_needs with the hunger window closed at 1800 s.
process_time_based_needs_inclusive(s, current_time, dt) ==
    LET time_since_fed == current_time - s.tamagotchi.last_fed
        h == IF time_since_fed >= 1800
             THEN [s EXCEPT !.tamagotchi.hunger = Max(0, @ - 100 * dt)]
             ELSE s
        e == IF h.tamagotchi.sleep_mode
             THEN [h EXCEPT !.tamagotchi.energy = Min(1000, @ + 50 * dt)]
             ELSE [h EXCEPT !.tamagotchi.energy = Max(0, @ - 20 * dt)]
        care_sum == e.tamagotchi.happiness + e.tamagotchi.hunger
                    + e.tamagotchi.energy + e.tamagotchi.comfort
    IN  IF care_sum < 4 * 300
        THEN [e EXCEPT !.tamagotchi.health = Max(0, @ - 10 * dt)]
        ELSE IF care_sum > 4 * 700
        THEN [e EXCEPT !.tamagotchi.health = Min(1000, @ + 5 * dt)]
        ELSE e

process_time_based_needs(s, current_time, dt) ==
    LET time_since_fed == current_time - s.tamagotchi.last_fed
        h == IF time_since_fed > 1800
             THEN [s EXCEPT !.tamagotchi.hunger = Max(0, @ - 100 * dt)]
             ELSE s
        e == IF h.tamagotchi.sleep_mode
             THEN [h EXCEPT !.tamagotchi.energy = Min(1000, @ + 50 * dt)]
             ELSE [h EXCEPT !.tamagotchi.energy = Max(0, @ - 20 * dt)]
        \* avg_care = care_sum / 4: avg_care < 30 iff care_sum < 4 * 300
        care_sum == e.tamagotchi.happiness + e.tamagotchi.hunger
                    + e.tamagotchi.energy + e.tamagotchi.comfort
    IN  IF care_sum < 4 * 300
        THEN [e EXCEPT !.tamagotchi.health = Max(0, @ - 10 * dt)]
        ELSE IF care_sum > 4 * 700
        THEN [e EXCEPT !.tamagotchi.health = Min(1000, @ + 5 * dt)]
        ELSE e

decay_stats(s, dt) ==
    IF ~s.tamagotchi.sleep_mode
    THEN [s EXCEPT !.tamagotchi.happiness = Max(0, @ - 3 * dt),
                   !.tamagotchi.social = Max(0, @ - 2 * dt)]
    ELSE s

\* The resolution with the hunger test ahead of the health test.
update_emotion_hunger_first(s) ==
    LET p == s.tamagotchi
    IN  IF p.sleep_mode THEN [s EXCEPT !.tamagotchi.emotion = "SLEEPY"]
        ELSE IF p.hunger < 200 THEN [s EXCEPT !.tamagotchi.emotion = "ANGRY"]
        ELSE IF p.health < 300 THEN [s EXCEPT !.tamagotchi.emotion = "SAD"]
        ELSE IF p.comfort < 300
        THEN LET temp == s.hardware.sensor_data.temperature
             IN  [s EXCEPT !.tamagotchi.emotion =
                     IF temp < preferred_temp_min THEN "COLD" ELSE "HOT"]
        ELSE IF p.happiness > 800 /\ p.energy > 700
        THEN [s EXCEPT !.tamagotchi.emotion = "EXCITED"]
        ELSE IF p.social < 300 THEN [s EXCEPT !.tamagotchi.emotion = "SAD"]
        ELSE [s EXCEPT !.tamagotchi.emotion = "HAPPY"]

\* The resolution that assigns nothing when no rule but the last applies.
update_emotion_keep_last(s) ==
    LET p == s.tamagotchi
    IN  IF p.sleep_mode THEN [s EXCEPT !.tamagotchi.emotion = "SLEEPY"]
        ELSE IF p.health < 300 THEN [s EXCEPT !.tamagotchi.emotion = "SAD"]
        ELSE IF p.hunger < 200 THEN [s EXCEPT !.tamagotchi.emotion = "ANGRY"]
        ELSE IF p.comfort < 300
        THEN LET temp == s.hardware.sensor_data.temperature
             IN  [s EXCEPT !.tamagotchi.emotion =
                     IF temp < preferred_temp_min THEN "COLD" ELSE "HOT"]
        ELSE IF p.happiness > 800 /\ p.energy > 700
        THEN [s EXCEPT !.tamagotchi.emotion = "EXCITED"]
        ELSE IF p.social < 300 THEN [s EXCEPT !.tamagotchi.emotion = "SAD"]
        ELSE s

update_emotion_from_sensors(s) ==
    LET p == s.tamagotchi
    IN  IF p.sleep_mode THEN [s EXCEPT !.tamagotchi.emotion = "SLEEPY"]
        ELSE IF p.health < 300 THEN [s EXCEPT !.tamagotchi.emotion = "SAD"]
        ELSE IF p.hunger < 200 THEN [s EXCEPT !.tamagotchi.emotion = "ANGRY"]
        ELSE IF p.comfort < 300
        THEN LET temp == s.hardware.sensor_data.temperature
             IN  [s EXCEPT !.tamagotchi.emotion =
                     IF temp < preferred_temp_min THEN "COLD" ELSE "HOT"]
        ELSE IF p.happiness > 800 /\ p.energy > 700
        THEN [s EXCEPT !.tamagotchi.emotion = "EXCITED"]
        ELSE IF p.social < 300 THEN [s EXCEPT !.tamagotchi.emotion = "SAD"]
        ELSE [s EXCEPT !.tamagotchi.emotion = "HAPPY"]

emotion_colors(emotion) ==
    CASE emotion = "HAPPY"   -> <<0, 255, 0>>
      [] emotion = "SAD"     -> <<0, 0, 255>>
      [] emotion = "ANGRY"   -> <<255, 0, 0>>
      [] emotion = "SLEEPY"  -> <<128, 0, 128>>
      [] emotion = "EXCITED" -> <<255, 255, 0>>
      [] emotion = "COLD"    -> <<0, 255, 255>>
      [] emotion = "HOT"     -> <<255, 128, 0>>
      [] emotion = "SCARED"  -> <<255, 0, 255>>
      [] emotion = "PLAYFUL" -> <<0, 255, 128>>
      [] emotion = "NEUTRAL" -> <<255, 255, 255>>
      [] OTHER               -> <<255, 255, 255>>

\* The LED feedback with the brightness left at 0.3 while asleep.
update_led_feedback_bright(s) ==
    set_led_color(s, emotion_colors(s.tamagotchi.emotion), 3)

update_led_feedback(s) ==
    set_led_color(s, emotion_colors(s.tamagotchi.emotion),
                  IF s.tamagotchi.sleep_mode THEN 1 ELSE 3)

\* The pet as _update_emotion_from_sensors finds it: update(dt) up to and
\* including _process_time_based_needs.
before_emotion(s, current_time, dt, angle) ==
    process_time_based_needs(
      process_environmental_conditions(
        process_movement_detection(
          update_message_timer(s, dt),
          s.hardware.sensor_data, current_time, angle),
        s.hardware.sensor_data),
      current_time, dt)

update(s, current_time, dt, angle) ==
    decay_stats(
      update_led_feedback(
        update_emotion_from_sensors(
          before_emotion(s, current_time, dt, angle))),
      dt)

\* ------------------------------------------------- the display variants
\* The SmartTamagotchi of tamagotchi_v1_1_lcd.py: the emotion chain of its update
\* and its five interaction operations (tones through hardware.buzzer.play).
lcd_resolve_emotion(s) ==
    LET p == s.tamagotchi
    IN  IF p.sleep_mode THEN [s EXCEPT !.tamagotchi.emotion = "SLEEPY"]
        ELSE IF p.health < 300 THEN [s EXCEPT !.tamagotchi.emotion = "SAD"]
        ELSE IF p.hunger < 200 THEN [s EXCEPT !.tamagotchi.emotion = "ANGRY"]
        ELSE IF p.comfort < 300
        THEN LET temp == s.hardware.sensor_data.temperature
             IN  [s EXCEPT !.tamagotchi.emotion =
                     IF temp < 18 * 100 THEN "COLD" ELSE "HOT"]
        ELSE IF p.happiness > 800 /\ p.energy > 700
        THEN [s EXCEPT !.tamagotchi.emotion = "EXCITED"]
        ELSE IF p.social < 300 THEN [s EXCEPT !.tamagotchi.emotion = "SAD"]
        ELSE [s EXCEPT !.tamagotchi.emotion = "HAPPY"]

lcd_feed(s, t) ==
    play_sound(
      [s EXCEPT !.tamagotchi.hunger = Min(1000, @ + 300),
                !.tamagotchi.happiness = Min(1000, @ + 100),
                !.tamagotchi.health = Min(1000, @ + 50),
                !.tamagotchi.last_fed = t,
                !.tamagotchi.last_interaction = t,
                !.tamagotchi.message = "Yummy! Thank you!",
                !.tamagotchi.message_timer = 30],
      600)

lcd_pet(s, t) ==
    play_sound(
      [s EXCEPT !.tamagotchi.happiness = Min(1000, @ + 200),
                !.tamagotchi.social = Min(1000, @ + 150),
                !.tamagotchi.comfort = Min(1000, @ + 100),
                !.tamagotchi.last_interaction = t,
                !.tamagotchi.message = "That feels nice!",
                !.tamagotchi.message_timer = 30],
      800)

\* play of the LCD variant with the hunger cost of the button+LED variant.
lcd_play_hungry(s, t) ==
    move_servo(
      play_sound(
        [s EXCEPT !.tamagotchi.happiness = Min(1000, @ + 250),
                  !.tamagotchi.social = Min(1000, @ + 200),
                  !.tamagotchi.energy = Max(0, @ - 150),
                  !.tamagotchi.hunger = Max(0, @ - 100),
                  !.tamagotchi.last_interaction = t,
                  !.tamagotchi.message = "Let's play again!",
                  !.tamagotchi.message_timer = 30],
        1000),
      90)

lcd_play(s, t) ==
    move_servo(
      play_sound(
        [s EXCEPT !.tamagotchi.happiness = Min(1000, @ + 250),
                  !.tamagotchi.social = Min(1000, @ + 200),
                  !.tamagotchi.energy = Max(0, @ - 150),
                  !.tamagotchi.last_interaction = t,
                  !.tamagotchi.message = "Let's play again!",
                  !.tamagotchi.message_timer = 30],
        1000),
      90)

lcd_put_to_sleep(s, t) ==
    play_sound(
      [s EXCEPT !.tamagotchi.sleep_mode = TRUE,
                !.tamagotchi.energy = Min(1000, @ + 300),
                !.tamagotchi.last_interaction = t,
                !.tamagotchi.message = "Goodnight!",
                !.tamagotchi.message_timer = 30],
      400)

lcd_wake_up(s) ==
    IF s.tamagotchi.sleep_mode
    THEN play_sound(
           [s EXCEPT !.tamagotchi.sleep_mode = FALSE,
                     !.tamagotchi.energy = Min(1000, @ + 100),
                     !.tamagotchi.happiness = Min(1000, @ + 50),
                     !.tamagotchi.message = "Good morning!",
                     !.tamagotchi.message_timer = 30],
           800)
    ELSE s

\* The SmartTamagotchi of tamagotchi_st7789.py: the emotion chain of its update
\* and its five interaction operations (tones through hardware.play_sound).
st7789_resolve_emotion(s) ==
    LET p == s.tamagotchi
    IN  IF p.sleep_mode THEN [s EXCEPT !.tamagotchi.emotion = "SLEEPY"]
        ELSE IF p.health < 300 THEN [s EXCEPT !.tamagotchi.emotion = "SAD"]
        ELSE IF p.hunger < 200 THEN [s EXCEPT !.tamagotchi.emotion = "ANGRY"]
        ELSE IF p.comfort < 300
        THEN LET temp == s.hardware.sensor_data.temperature
             IN  [s EXCEPT !.tamagotchi.emotion =
                     IF temp < 18 * 100 THEN "COLD" ELSE "HOT"]
        ELSE IF p.happiness > 800 /\ p.energy > 700
        THEN [s EXCEPT !.tamagotchi.emotion = "EXCITED"]
        ELSE IF p.social < 300 THEN [s EXCEPT !.tamagotchi.emotion = "SAD"]
        ELSE [s EXCEPT !.tamagotchi.emotion = "HAPPY"]

st7789_feed(s, t) ==
    play_sound(
      [s EXCEPT !.tamagotchi.hunger = Min(1000, @ + 300),
                !.tamagotchi.happiness = Min(1000, @ + 100),
                !.tamagotchi.health = Min(1000, @ + 50),
                !.tamagotchi.last_fed = t,
                !.tamagotchi.last_interaction = t,
                !.tamagotchi.message = "Yummy! Thank you!",
                !.tamagotchi.message_timer = 30],
      600)

st7789_pet(s, t) ==
    play_sound(
      [s EXCEPT !.tamagotchi.happiness = Min(1000, @ + 200),
                !.tamagotchi.social = Min(1000, @ + 150),
                !.tamagotchi.comfort = Min(1000, @ + 100),
                !.tamagotchi.last_interaction = t,
                !.tamagotchi.message = "That feels nice!",
                !.tamagotchi.message_timer = 30],
      800)

st7789_play(s, t) ==
    move_servo(
      play_sound(
        [s EXCEPT !.tamagotchi.happiness = Min(1000, @ + 250),
                  !.tamagotchi.social = Min(1000, @ + 200),
                  !.tamagotchi.energy = Max(0, @ - 150),
                  !.tamagotchi.last_interaction = t,
                  !.tamagotchi.message = "Let's play again!",
                  !.tamagotchi.message_timer = 30],
        1000),
      90)

st7789_put_to_sleep(s, t) ==
    play_sound(
      [s EXCEPT !.tamagotchi.sleep_mode = TRUE,
                !.tamagotchi.energy = Min(1000, @ + 300),
                !.tamagotchi.last_interaction = t,
                !.tamagotchi.message = "Goodnight!",
                !.tamagotchi.message_timer = 30],
      400)

st7789_wake_up(s) ==
    IF s.tamagotchi.sleep_mode
    THEN play_sound(
           [s EXCEPT !.tamagotchi.sleep_mode = FALSE,
                     !.tamagotchi.energy = Min(1000, @ + 100),
                     !.tamagotchi.happiness = Min(1000, @ + 50),
                     !.tamagotchi.message = "Good morning!",
                     !.tamagotchi.message_timer = 30],
           800)
    ELSE s

\* ------------------------------ LCD variant: button thread and main loop
\* The LCD GameManager runs update(dt) on the main thread with dt = 1/FPS
\* = 0.1 s while _button_loop calls the interactions on its own thread; no
\* lock guards the pet.  One update then takes 0.01 from happiness, so the
\* stats of this part are in thousandths (80 is 80000), and so is dt.
Milli == 1000

FPS == 10

LcdDt == Milli \div FPS

NoGame == [running |-> FALSE]

\* One statement of a method of the pet: a read-modify-write of a field
\* ("add": self.f = min(100, self.f + arg); "sub": self.f = max(0, self.f -
\* arg)), a plain store ("set"), the test that opens wake_up ("if_sleep"),
\* the emotion chain ("resolve"), the message timer ("timer"), a tone or a
\* servo move.
Stmt(kind, field, arg) == [kind |-> kind, field |-> field, arg |-> arg]

lcd_update_program(dt) ==
    <<Stmt("sub", "happiness", dt \div 10),
      Stmt("sub", "energy", (5 * dt) \div 100),
      Stmt("sub", "hunger", (8 * dt) \div 100),
      Stmt("sub", "comfort", (3 * dt) \div 100),
      Stmt("sub", "social", (2 * dt) \div 100),
      Stmt("resolve", "emotion", 0),
      Stmt("timer", "message_timer", dt)>>

lcd_feed_program ==
    <<Stmt("add", "hunger", 30 * Milli),
      Stmt("add", "happiness", 10 * Milli),
      Stmt("add", "health", 5 * Milli),
      Stmt("set", "last_fed", 1),
      Stmt("set", "last_interaction", 1),
      Stmt("set", "message", "Yummy! Thank you!"),
      Stmt("set", "message_timer", 3 * Milli),
      Stmt("tone", "buzzer", 600)>>

lcd_pet_program ==
    <<Stmt("add", "happiness", 20 * Milli),
      Stmt("add", "social", 15 * Milli),
      Stmt("add", "comfort", 10 * Milli),
      Stmt("set", "last_interaction", 1),
      Stmt("set", "message", "That feels nice!"),
      Stmt("set", "message_timer", 3 * Milli),
      Stmt("tone", "buzzer", 800)>>

lcd_play_program ==
    <<Stmt("add", "happiness", 25 * Milli),
      Stmt("add", "social", 20 * Milli),
      Stmt("sub", "energy", 15 * Milli),
      Stmt("set", "last_interaction", 1),
      Stmt("set", "message", "Let's play again!"),
      Stmt("set", "message_timer", 3 * Milli),
      Stmt("tone", "buzzer", 1000),
      Stmt("servo", "servo", 90)>>

lcd_put_to_sleep_program ==
    <<Stmt("set", "sleep_mode", TRUE),
      Stmt("add", "energy", 30 * Milli),
      Stmt("set", "last_interaction", 1),
      Stmt("set", "message", "Goodnight!"),
      Stmt("set", "message_timer", 3 * Milli),
      Stmt("tone", "buzzer", 400)>>

lcd_wake_up_program ==
    <<Stmt("if_sleep", "sleep_mode", 0),
      Stmt("set", "sleep_mode", FALSE),
      Stmt("add", "energy", 10 * Milli),
      Stmt("add", "happiness", 5 * Milli),
      Stmt("set", "message", "Good morning!"),
      Stmt("set", "message_timer", 3 * Milli),
      Stmt("tone", "buzzer", 800)>>

\* The method _button_loop calls for the button it read as pressed.
button_loop(pressed, sleep_mode) ==
    CASE pressed = "feed" -> lcd_feed_program
      [] pressed = "pet" -> lcd_pet_program
      [] pressed = "play" -> lcd_play_program
      [] pressed = "sleep" ->
           IF sleep_mode THEN lcd_wake_up_program
           ELSE lcd_put_to_sleep_program

\* The emotion chain of update on the pet's fields.
lcd_emotion(mem) ==
    IF mem.sleep_mode THEN "SLEEPY"
    ELSE IF mem.health < 30 * Milli THEN "SAD"
    ELSE IF mem.hunger < 20 * Milli THEN "ANGRY"
    ELSE IF mem.comfort < 30 * Milli
    THEN IF mem.temperature < 18 * 100 THEN "COLD" ELSE "HOT"
    ELSE IF mem.happiness > 80 * Milli /\ mem.energy > 70 * Milli
    THEN "EXCITED"
    ELSE IF mem.social < 30 * Milli THEN "SAD"
    ELSE "HAPPY"

\* What a statement stores once it holds the value reg it loaded.
stmt_store(mem, st, reg) ==
    CASE st.kind = "add" ->
           [mem EXCEPT ![st.field] = Min(100 * Milli, reg + st.arg)]
      [] st.kind = "sub" ->
           [mem EXCEPT ![st.field] = Max(0, reg - st.arg)]
      [] st.kind = "timer" ->
           [mem EXCEPT !.message_timer = reg - st.arg]
      [] st.kind = "resolve" -> [mem EXCEPT !.emotion = lcd_emotion(mem)]
      [] OTHER -> [mem EXCEPT ![st.field] = st.arg]

\* A statement run without interruption.
stmt_run(mem, st) ==
    CASE st.kind \in {"add", "sub"} -> stmt_store(mem, st, mem[st.field])
      [] st.kind = "timer" ->
           IF mem.message_timer > 0
           THEN stmt_store(mem, st, mem.message_timer)
           ELSE [mem EXCEPT !.message = ""]
      [] st.kind = "if_sleep" -> mem
      [] OTHER -> stmt_store(mem, st, 0)

\* A whole method run without interruption.
RECURSIVE method_run(_, _, _)
method_run(mem, prog, pc) ==
    IF pc > Len(prog) THEN mem
    ELSE IF prog[pc].kind = "if_sleep" /\ ~mem.sleep_mode THEN mem
    ELSE method_run(stmt_run(mem, prog[pc]), prog, pc + 1)

NewThread == [pc |-> 1, phase |-> 0, reg |-> 0]

\* One step of a thread that is at statement pc of prog: a load of a field
\* into the thread's own reg, or a store.  The interpreter may switch
\* threads between any two of these steps.  The emotion chain is taken as
\* one step: it stores emotion only.
thread_step(mem, th, prog) ==
    LET st == prog[th.pc]
        after == [pc |-> th.pc + 1, phase |-> 0, reg |-> 0]
        done == [pc |-> Len(prog) + 1, phase |-> 0, reg |-> 0]
    IN  CASE st.kind \in {"add", "sub"} /\ th.phase = 0 ->
               [mem |-> mem,
                th |-> [th EXCEPT !.phase = 1, !.reg = mem[st.field]]]
          [] st.kind \in {"add", "sub"} /\ th.phase = 1 ->
               [mem |-> stmt_store(mem, st, th.reg), th |-> after]
          [] st.kind = "timer" /\ th.phase = 0 ->
               [mem |-> mem,
                th |-> [th EXCEPT !.phase = 1, !.reg = mem.message_timer]]
          [] st.kind = "timer" /\ th.phase = 1 /\ th.reg > 0 ->
               [mem |-> mem,
                th |-> [th EXCEPT !.phase = 2, !.reg = mem.message_timer]]
          [] st.kind = "timer" /\ th.phase = 1 /\ th.reg <= 0 ->
               [mem |-> [mem EXCEPT !.message = ""], th |-> after]
          [] st.kind = "timer" /\ th.phase = 2 ->
               [mem |-> stmt_store(mem, st, th.reg), th |-> after]
          [] st.kind = "if_sleep" ->
               [mem |-> mem, th |-> IF mem.sleep_mode THEN after ELSE done]
          [] OTHER -> [mem |-> stmt_store(mem, st, 0), th |-> after]

\* The fields of the LCD pet as its constructor leaves them.
NewLcdPet ==
    [happiness |-> 80 * Milli, energy |-> 70 * Milli, hunger |-> 60 * Milli,
     health |-> 90 * Milli, comfort |-> 75 * Milli, social |-> 60 * Milli,
     sleep_mode |-> FALSE, emotion |-> "HAPPY", message |-> "Hello!",
     message_timer |-> 0, last_fed |-> 0, last_interaction |-> 0,
     buzzer |-> 0, servo |-> 0, temperature |-> 2200]

\* --------------------------------------------- button+LED variant (sad.py)
\* SimpleTamagotchi: stats are whole numbers in [0,100], time is in whole
\* seconds, an LED's value is in tenths (LED_BRIGHTNESS 0.8 is 8, off is 0).
LED_BRIGHTNESS == 8

STATS_UPDATE_INTERVAL == 10

INTERACTION_DURATION == 3

INTERACTION_COOLDOWN == 3

NoSad == [constructed |-> FALSE]

NoReading == [found |-> FALSE, temp_c |-> 0]

sad_get_led_state(p) ==
    IF p.forced_emotion # "None"
    THEN IF p.forced_emotion \in {"angry"} THEN "angry"
         ELSE IF p.forced_emotion \in {"excited", "happy"} THEN "happy"
         ELSE "sleep"
    ELSE IF p.health < 30 \/ p.hungry > 80 THEN "sleep"
    ELSE IF p.hungry < 20 \/ p.health < 20 THEN "angry"
    ELSE IF p.happy > 60 /\ p.health > 60 THEN "happy"
    ELSE "sleep"

\* update_led_eyes that lights the LED of the new state without turning
\* both off first.
sad_update_led_eyes_no_off(p) ==
    LET new_state == sad_get_led_state(p)
    IN  IF new_state # p.current_led_state
        THEN [p EXCEPT !.led_red = IF new_state = "angry"
                                   THEN LED_BRIGHTNESS ELSE @,
                       !.led_green = IF new_state = "happy"
                                     THEN LED_BRIGHTNESS ELSE @,
                       !.current_led_state = new_state]
        ELSE p

sad_update_led_eyes(p) ==
    LET new_state == sad_get_led_state(p)
    IN  IF new_state # p.current_led_state
        THEN [p EXCEPT !.led_red = IF new_state = "angry"
                                   THEN LED_BRIGHTNESS ELSE 0,
                       !.led_green = IF new_state = "happy"
                                     THEN LED_BRIGHTNESS ELSE 0,
                       !.current_led_state = new_state]
        ELSE p

\* The pet as __init__ leaves it at time t: both LEDs open and off with
\* current_led_state "sleep", then update_led_eyes.  (When a PWMLED cannot be
\* opened, current_led_state is never set and __init__ raises in
\* update_led_eyes: no pet exists.)
NewSad(t) ==
    sad_update_led_eyes(
      [constructed |-> TRUE, health |-> 100, happy |-> 100, hungry |-> 50,
       last_update |-> t, current_action |-> 0,
       current_temperature |-> NoReading,
       interaction_mode |-> "None", interaction_message |-> "",
       interaction_timer |-> 0, forced_emotion |-> "None",
       led_red |-> 0, led_green |-> 0, current_led_state |-> "sleep"])

\* rnd holds the three random.randint draws of one call.
sad_update_stats(p, current_time, rnd) ==
    IF current_time - p.last_update >= STATS_UPDATE_INTERVAL
    THEN LET hungry == Max(0, p.hungry - rnd.hungry)
         IN  [p EXCEPT !.hungry = hungry,
                       !.happy = Max(0, @ - rnd.happy),
                       !.health = IF hungry < 20
                                  THEN Max(0, @ - rnd.health) ELSE @,
                       !.last_update = current_time]
    ELSE p

\* reading is what the DS18B20 file gave: no valid reading, or a temperature.
sad_read_temperature(p, reading) ==
    IF reading.found THEN [p EXCEPT !.current_temperature = reading] ELSE p

sad_check_ir_sensor(p, sensor_value, interaction_type, current_time) ==
    IF sensor_value = 0
    THEN IF \/ p.interaction_timer = 0
            \/ current_time - p.interaction_timer > INTERACTION_COOLDOWN
         THEN CASE interaction_type = 1 ->
                     [p EXCEPT !.interaction_mode = "angry",
                               !.interaction_message = "DON'T TOUCH ME!",
                               !.forced_emotion = "angry",
                               !.happy = Max(0, @ - 15),
                               !.interaction_timer = current_time]
                [] interaction_type = 2 ->
                     [p EXCEPT !.interaction_mode = "happy",
                               !.interaction_message = "I LOVE PETS!",
                               !.forced_emotion = "excited",
                               !.happy = Min(100, @ + 20),
                               !.interaction_timer = current_time]
                [] OTHER ->
                     [p EXCEPT !.interaction_mode = "neutral",
                               !.interaction_message = "...",
                               !.forced_emotion = "neutral",
                               !.interaction_timer = current_time]
         ELSE p
    ELSE IF /\ p.interaction_timer > 0
            /\ current_time - p.interaction_timer > INTERACTION_DURATION
         THEN [p EXCEPT !.interaction_mode = "None",
                        !.interaction_message = "",
                        !.forced_emotion = "None",
                        !.interaction_timer = 0]
         ELSE p

sad_feed(p) ==
    [p EXCEPT !.hungry = Min(100, @ + 30), !.happy = Min(100, @ + 5)]

sad_play(p) ==
    [p EXCEPT !.happy = Min(100, @ + 25), !.hungry = Max(0, @ - 10)]

sad_heal(p) ==
    [p EXCEPT !.health = Min(100, @ + 20), !.hungry = Max(0, @ - 5)]

left_pressed(p) == [p EXCEPT !.current_action = (@ - 1) % 3]

right_pressed(p) == [p EXCEPT !.current_action = (@ + 1) % 3]

select_pressed(p) ==
    IF p.current_action = 0 THEN sad_feed(p)
    ELSE IF p.current_action = 1 THEN sad_play(p)
    ELSE IF p.current_action = 2 THEN sad_heal(p)
    ELSE p

\* One iteration of the stats_updater thread at time current_time.
stats_updater(p, current_time, rnd, reading, sensor_value, interaction_type) ==
    sad_update_led_eyes(
      sad_check_ir_sensor(
        sad_read_temperature(sad_update_stats(p, current_time, rnd), reading),
        sensor_value, interaction_type, current_time))

\* -------------------------------------------------------- sampling tick
\* Marks a tick on which random.random() < 0.01 is false.
NoInject == [injected |-> FALSE, x |-> 0, y |-> 0, z |-> 0]

\* Port reads.  HardwareManager builds every port without a driver handle,
\* so each port answers from its simulated value.
light_sensor_read(h) == h.light_sensor.sim_light_level
temp_sensor_read(h) == h.temp_sensor.sim_temperature
sound_sensor_read(h) == h.sound_sensor.sim_sound_level
\* read_acceleration returns the port's own dictionary, not a copy: what the
\* tick then writes into the snapshot's acceleration is written into the
\* port's sim_acceleration as well.
imu_read_acceleration(h) == h.imu_sensor.sim_acceleration

\* _read_sensors that leaves simulate_motion_flag set.
read_sensors_flag_kept(h, current_time, inject) ==
    LET polled == [h EXCEPT !.sensor_data.light_level = light_sensor_read(h),
                            !.sensor_data.temperature = temp_sensor_read(h),
                            !.sensor_data.sound_level = sound_sensor_read(h),
                            !.sensor_data.acceleration = imu_read_acceleration(h)]
        accel == polled.sensor_data.acceleration
        moved == IF polled.simulate_motion_flag
                 THEN [x |-> 35, y |-> 35, z |-> 120]
                 ELSE IF inject.injected
                 THEN [x |-> inject.x, y |-> inject.y, z |-> inject.z]
                 ELSE [accel EXCEPT !.z = 98]
        stamped == polled.simulate_motion_flag \/ inject.injected
    IN  [polled EXCEPT !.sensor_data.acceleration = moved,
                       !.imu_sensor.sim_acceleration = moved,
                       !.sensor_data.last_movement =
                           IF stamped THEN current_time ELSE @]

read_sensors(h, current_time, inject) ==
    LET polled == [h EXCEPT !.sensor_data.light_level = light_sensor_read(h),
                            !.sensor_data.temperature = temp_sensor_read(h),
                            !.sensor_data.sound_level = sound_sensor_read(h),
                            !.sensor_data.acceleration = imu_read_acceleration(h)]
        accel == polled.sensor_data.acceleration
        moved == IF polled.simulate_motion_flag
                 THEN [x |-> 35, y |-> 35, z |-> 120]
                 ELSE IF inject.injected
                 THEN [x |-> inject.x, y |-> inject.y, z |-> inject.z]
                 ELSE [accel EXCEPT !.z = 98]
        stamped == polled.simulate_motion_flag \/ inject.injected
    IN  [polled EXCEPT !.sensor_data.acceleration = moved,
                       !.imu_sensor.sim_acceleration = moved,
                       !.sensor_data.last_movement =
                           IF stamped THEN current_time ELSE @,
                       !.simulate_motion_flag = FALSE]

\* _process_sensor_data that stamps last_movement on pickup only.
process_sensor_data_shake_unstamped(h, current_time) ==
    LET accel_z == Abs(h.sensor_data.acceleration.z)
        is_picked_up == accel_z < 80 \/ accel_z > 110
        total_accel == Abs(h.sensor_data.acceleration.x)
                       + Abs(h.sensor_data.acceleration.y)
        shake_detected == total_accel > 30
    IN  [h EXCEPT !.sensor_data.is_picked_up = is_picked_up,
                  !.sensor_data.shake_detected = shake_detected,
                  !.sensor_data.last_movement =
                      IF is_picked_up THEN current_time ELSE @]

\* _process_sensor_data with the pickup threshold taken as >= 11.
process_sensor_data_inclusive(h, current_time) ==
    LET accel_z == Abs(h.sensor_data.acceleration.z)
        is_picked_up == accel_z < 80 \/ accel_z >= 110
        total_accel == Abs(h.sensor_data.acceleration.x)
                       + Abs(h.sensor_data.acceleration.y)
        shake_detected == total_accel > 30
    IN  [h EXCEPT !.sensor_data.is_picked_up = is_picked_up,
                  !.sensor_data.shake_detected = shake_detected,
                  !.sensor_data.last_movement =
                      IF is_picked_up \/ shake_detected THEN current_time ELSE @]

process_sensor_data(h, current_time) ==
    LET accel_z == Abs(h.sensor_data.acceleration.z)
        is_picked_up == accel_z < 80 \/ accel_z > 110
        total_accel == Abs(h.sensor_data.acceleration.x)
                       + Abs(h.sensor_data.acceleration.y)
        shake_detected == total_accel > 30
    IN  [h EXCEPT !.sensor_data.is_picked_up = is_picked_up,
                  !.sensor_data.shake_detected = shake_detected,
                  !.sensor_data.last_movement =
                      IF is_picked_up \/ shake_detected THEN current_time ELSE @]

\* ------------------------------------------------------------------ ports
\* The port classes of src/hardware, each constructed with an optional
\* driver handle and a simulation flag.
PortKinds == {"light", "temperature", "imu", "sound", "led", "buzzer",
              "servo", "buttons"}

\* What happens when a constructor tries to create its driver: the driver
\* is created, its library is missing (ImportError), or creating it fails
\* with another exception.  SoundSensor creates no driver: it keeps the
\* analog input it is given.
DriverOutcomes(kind) ==
    IF kind = "sound" THEN {"ok"} ELSE {"ok", "import_error", "create_error"}

\* The value a port holds for simulation after construction: lux,
\* hundredths of a degree, sound level, the z acceleration in tenths, the
\* LED brightness in tenths, the servo angle, the number of pressed
\* simulated buttons.
SimDefault(kind) ==
    CASE kind = "light"       -> 500
      [] kind = "temperature" -> 2200
      [] kind = "sound"       -> 30
      [] kind = "imu"         -> 98
      [] kind = "led"         -> 3
      [] kind = "servo"       -> 90
      [] OTHER                -> 0

\* No port has been constructed.
NoPort ==
    [kind |-> "none", simulation |-> FALSE, handle |-> FALSE, mode |-> "none",
     sim |-> 0, angle |-> 0, result |-> "none"]

\* __init__ of a port: mode "real" when the driver object exists,
\* "simulated" when self.sensor (pixels, buzzer, servo, buttons) is None,
\* "raised" when the constructor does not complete.  Only TemperatureSensor
\* catches exceptions other than ImportError.
port_init(kind, simulation, handle, driver) ==
    [kind |-> kind, simulation |-> simulation, handle |-> handle,
     mode |-> IF ~simulation /\ handle
              THEN CASE driver = "ok" -> "real"
                     [] driver = "import_error" -> "simulated"
                     [] driver = "create_error" ->
                          IF kind = "temperature" THEN "simulated"
                          ELSE "raised"
              ELSE "simulated",
     sim |-> SimDefault(kind), angle |-> 0, result |-> "none"]

\* ServoMotor.move: the driver's angle in real mode, sim_angle otherwise.
servo_move(p, angle) ==
    IF p.mode = "real"
    THEN [p EXCEPT !.angle = Max(0, Min(180, angle))]
    ELSE [p EXCEPT !.sim = angle]

\* read() of a sensor port: a real driver answers or fails, a simulated
\* port returns the value it holds.
port_read(p, driver_fails) ==
    IF p.mode = "real" /\ driver_fails
    THEN [p EXCEPT !.result = "raised"]
    ELSE [p EXCEPT !.result = "returned"]

\* Angles handed to ServoMotor.move.
MoveAngles == {-10, 0, 90, 180, 200}

\* ------------------------------------------------- environment controls
\* list(Season) and list(EnvironmentState), in declaration order.
sim_season_list == <<"SPRING", "SUMMER", "AUTUMN", "WINTER">>
sim_time_list == <<"DAY", "NIGHT", "DAWN", "DUSK">>

\* The actions of the front-end's environment buttons.
EnvActions == {"light_up", "light_down", "temp_up", "temp_down",
               "sound_up", "sound_down", "season_next", "time_next"}

\* GameManager.handle_env_button: the buttons change the manager's own
\* sim_* attributes.
handle_env_button(h, action) ==
    CASE action = "light_up" ->
           [h EXCEPT !.sim_light_level = Min(1000, @ + 50)]
      [] action = "light_down" ->
           [h EXCEPT !.sim_light_level = Max(0, @ - 50)]
      [] action = "temp_up" ->
           [h EXCEPT !.sim_temperature = Min(40 * 100, @ + 100)]
      [] action = "temp_down" ->
           [h EXCEPT !.sim_temperature = Max(-10 * 100, @ - 100)]
      [] action = "sound_up" ->
           [h EXCEPT !.sim_sound_level = Min(120, @ + 5)]
      [] action = "sound_down" ->
           [h EXCEPT !.sim_sound_level = Max(0, @ - 5)]
      [] action = "season_next" ->
           LET idx == (h.sim_season_idx + 1) % Len(sim_season_list)
           IN  [h EXCEPT !.sim_season_idx = idx,
                         !.sim_season = sim_season_list[idx + 1]]
      [] action = "time_next" ->
           LET idx == (h.sim_time_idx + 1) % Len(sim_time_list)
           IN  [h EXCEPT !.sim_time_idx = idx,
                         !.sim_time = sim_time_list[idx + 1]]

\* ----------------------------------------------------------- construction
NoTones == [f \in Frequencies |-> 0]

\* HardwareManager.__init__ at time t.
NewHardware(simulation, t) ==
    [simulation |-> simulation,
     sim_season_idx |-> 0,
     sim_time_idx |-> 0,
     sim_season |-> "SPRING",
     sim_time |-> "DAY",
     sim_light_level |-> 500,
     sim_temperature |-> 2200,
     sim_sound_level |-> 30,
     simulate_motion_flag |-> FALSE,
     sensor_data |-> [light_level |-> 500,
                      temperature |-> 2200,
                      sound_level |-> 30,
                      acceleration |-> [x |-> 0, y |-> 0, z |-> 0],
                      last_movement |-> t,
                      is_picked_up |-> FALSE,
                      shake_detected |-> FALSE],
     light_sensor |-> [sim_light_level |-> 500],
     temp_sensor |-> [sim_temperature |-> 2200],
     sound_sensor |-> [sim_sound_level |-> 30],
     imu_sensor |-> [sim_acceleration |-> [x |-> 0, y |-> 0, z |-> 98]],
     led |-> [sim_color |-> <<255, 255, 255>>, sim_brightness |-> 3],
     buzzer |-> NoTones,
     servo |-> [sim_angle |-> 90],
     running |-> TRUE,
     \* where the sampling thread stands in _sensor_loop
     sensor_thread |-> "while",
     \* where a caller of cleanup() stands
     cleanup |-> "not_called"]

\* SmartTamagotchi.__init__ at time t.
NewTamagotchi(t) ==
    [emotion |-> "HAPPY",
     message |-> "Hello! I'm your smart companion!",
     message_timer |-> 0,
     happiness |-> 800,
     energy |-> 700,
     hunger |-> 600,
     health |-> 900,
     comfort |-> 750,
     social |-> 600,
     sleep_mode |-> FALSE,
     last_interaction |-> t,
     last_fed |-> t,
     pickup_message_shown |-> FALSE,
     shake_message_shown |-> FALSE]

NoCall == [op |-> "none", dt |-> 0]

Init ==
    /\ now = 0
    /\ \E simulation \in BOOLEAN : hardware = NewHardware(simulation, 0)
    /\ tamagotchi = NewTamagotchi(0)
    /\ call = NoCall
    /\ seen = [is_picked_up |-> FALSE, shake_detected |-> FALSE]
    /\ budget = MaxSteps
    /\ port = NoPort
    /\ lcd_game = NoGame
    /\ sad = NoSad

\* A pet in mid-life: stats, sleep mode, motion flag and snapshot values the
\* engine reaches after longer runs than MaxSteps covers.
InitAny ==
    /\ now = 2000
    /\ \E happiness \in {20, 801, 980}, energy \in {495, 520, 730},
          hunger \in {50, 900}, health \in {299, 300},
          comfort \in {3, 297, 305, 999}, social \in {299, 310},
          sleep_mode \in BOOLEAN, motion \in {"rest", "lifted", "shaken"},
          shown \in BOOLEAN, temp \in {1799, 1800, 2600, 2601},
          light \in {0, 601}, last_fed \in {now - 1801, now - 1800} :
        \* comfort near 30 is sampled at the lower edge of the preferred
        \* band, comfort near its cap and floor at the upper edge
        /\ \/ temp <= 1800 /\ comfort \in {297, 305}
           \/ temp = 2600 /\ comfort = 999
           \/ temp = 2601 /\ comfort = 3
        /\ LET is_picked_up == motion = "lifted"
               shake_detected == motion = "shaken"
               accel == [x |-> IF shake_detected THEN 35 ELSE 0,
                         y |-> IF shake_detected THEN 35 ELSE 0,
                         z |-> IF is_picked_up THEN 120 ELSE 98]
               h0 == NewHardware(FALSE, 0)
               p0 == NewTamagotchi(0)
           IN  /\ hardware =
                    [h0 EXCEPT !.sensor_data.light_level = light,
                               !.light_sensor.sim_light_level = light,
                               !.sensor_data.temperature = temp,
                               !.temp_sensor.sim_temperature = temp,
                               !.sensor_data.acceleration = accel,
                               !.imu_sensor.sim_acceleration = accel,
                               !.sensor_data.is_picked_up = is_picked_up,
                               !.sensor_data.shake_detected = shake_detected,
                               !.sensor_data.last_movement = now]
               /\ tamagotchi =
                    [p0 EXCEPT !.happiness = happiness, !.energy = energy,
                               !.hunger = hunger, !.health = health,
                               !.comfort = comfort, !.social = social,
                               !.sleep_mode = sleep_mode,
                               !.emotion = IF sleep_mode THEN "SLEEPY" ELSE "HAPPY",
                               !.last_fed = last_fed,
                               !.last_interaction = last_fed,
                               !.pickup_message_shown = shown,
                               !.shake_message_shown = shown]
               /\ seen = [is_picked_up |-> shown, shake_detected |-> shown]
    /\ call = NoCall
    /\ budget = MaxAnySteps
    /\ port = NoPort
    /\ lcd_game = NoGame
    /\ sad = NoSad

\* ----------------------------------------------------------------- actions
S == [tamagotchi |-> tamagotchi, hardware |-> hardware]

Step(r, op, dt) ==
    /\ budget > 0
    /\ budget' = budget - 1
    /\ tamagotchi' = r.tamagotchi
    /\ hardware' = r.hardware
    /\ call' = [op |-> op, dt |-> dt]
    /\ now' = now
    /\ UNCHANGED <<port, lcd_game, sad>>

Feed == Step(feed(S, now), "feed", 0) /\ UNCHANGED seen

Pet == Step(pet(S, now), "pet", 0) /\ UNCHANGED seen

Play == Step(play(S, now), "play", 0) /\ UNCHANGED seen

PutToSleep == Step(put_to_sleep(S, now), "put_to_sleep", 0) /\ UNCHANGED seen

WakeUp == Step(wake_up(S), "wake_up", 0) /\ UNCHANGED seen

Update ==
    \E dt \in DtSet, angle \in ServoAngles :
        /\ Step(update(S, now, dt, angle), "update", dt)
        /\ seen' = [is_picked_up |-> hardware.sensor_data.is_picked_up,
                    shake_detected |-> hardware.sensor_data.shake_detected]

\* time.time() moves on between calls.
AdvanceTime ==
    \E d \in TimeJumps :
        /\ budget > 0
        /\ budget' = budget - 1
        /\ now' = now + d
        /\ call' = [op |-> "advance_time", dt |-> 0]
        /\ UNCHANGED <<tamagotchi, hardware, seen, port, lcd_game, sad>>

Hw(h, op) ==
    /\ budget > 0
    /\ budget' = budget - 1
    /\ hardware' = h
    /\ call' = [op |-> op, dt |-> 0]
    /\ UNCHANGED <<tamagotchi, now, seen, port, lcd_game, sad>>

\* One iteration of _sensor_loop: _read_sensors, then _process_sensor_data.
SensorTickWith(inject) ==
    /\ hardware.running
    /\ Hw(process_sensor_data(read_sensors(hardware, now, inject), now),
          "sensor_tick")

SensorTick == \E inject \in InjectSet \cup {NoInject} : SensorTickWith(inject)

\* The "motion" button of the front-end.
SimulateMotion ==
    Hw([hardware EXCEPT !.simulate_motion_flag = TRUE], "simulate_motion")

\* The simulated ports' values are set from outside.
SetSimLight ==
    \E v \in LightSet : Hw([hardware EXCEPT !.light_sensor.sim_light_level = v],
                            "set_sim_light")

SetSimTemperature ==
    \E v \in TempSet : Hw([hardware EXCEPT !.temp_sensor.sim_temperature = v],
                           "set_sim_temperature")

SetSimSound ==
    \E v \in SoundSet : Hw([hardware EXCEPT !.sound_sensor.sim_sound_level = v],
                            "set_sim_sound")

NextPet ==
    \/ Feed
    \/ Pet
    \/ Play
    \/ PutToSleep
    \/ WakeUp
    \/ Update
    \/ AdvanceTime

Next ==
    \/ NextPet
    \/ SensorTick
    \/ SimulateMotion
    \/ SetSimLight
    \/ SetSimTemperature
    \/ SetSimSound

Spec == Init /\ [][Next]_vars

SpecAny == InitAny /\ [][NextPet]_vars

\* --------------------------------------------------- the pygame front-end
\* GameManager.__init__: HardwareManager() is built with its default
\* simulation = False.
InitGame ==
    /\ now = 0
    /\ hardware = NewHardware(FALSE, 0)
    /\ tamagotchi = NewTamagotchi(0)
    /\ call = NoCall
    /\ seen = [is_picked_up |-> FALSE, shake_detected |-> FALSE]
    /\ budget = MaxSteps
    /\ port = NoPort
    /\ lcd_game = NoGame
    /\ sad = NoSad

\* A click on one of the environment buttons.
EnvButton ==
    \E action \in EnvActions :
        Hw(handle_env_button(hardware, action), action)

NextGame ==
    \/ EnvButton
    \/ SensorTick
    \/ SimulateMotion

SpecGame == InitGame /\ [][NextGame]_vars

\* ------------------------------------------------------ ports on their own
PortStep(p, op) ==
    /\ port' = p
    /\ call' = [op |-> op, dt |-> 0]
    /\ UNCHANGED <<tamagotchi, hardware, now, seen, budget,
                 lcd_game, sad>>

PortConstructWith(kind, simulation, handle, driver) ==
    /\ port' = port_init(kind, simulation, handle, driver)
    /\ call' = [op |-> "port_init", dt |-> 0]
    /\ UNCHANGED <<tamagotchi, hardware, now, seen, budget,
                 lcd_game, sad>>

PortConstruct ==
    \E kind \in PortKinds, simulation \in BOOLEAN, handle \in BOOLEAN :
        \E driver \in DriverOutcomes(kind) :
            PortConstructWith(kind, simulation, handle, driver)

\* The simulated value of a sensor port is set from outside.
PortSetSim ==
    /\ port.mode \in {"real", "simulated"}
    /\ \/ port.kind = "light" /\ \E v \in LightSet :
             PortStep([port EXCEPT !.sim = v], "port_set_sim")
       \/ port.kind = "temperature" /\ \E v \in TempSet :
             PortStep([port EXCEPT !.sim = v], "port_set_sim")
       \/ port.kind = "sound" /\ \E v \in SoundSet :
             PortStep([port EXCEPT !.sim = v], "port_set_sim")

PortRead ==
    /\ port.mode \in {"real", "simulated"}
    /\ port.kind \in {"light", "temperature", "imu", "sound", "buttons"}
    /\ \E driver_fails \in BOOLEAN :
          PortStep(port_read(port, driver_fails), "port_read")

ServoMoveTo(angle) ==
    /\ port.kind = "servo"
    /\ port.mode \in {"real", "simulated"}
    /\ PortStep(servo_move(port, angle), "servo_move")

ServoMove == \E angle \in MoveAngles : ServoMoveTo(angle)

NextPorts ==
    \/ PortConstruct
    \/ PortSetSim
    \/ PortRead
    \/ ServoMove

SpecPorts == Init /\ [][NextPorts]_vars

\* ------------------------------------------------- the sampling thread
\* _sensor_loop taken one statement at a time.  sensor_thread is the
\* statement the thread executes next: the while test, _read_sensors,
\* _process_sensor_data, the 0.1 s sleep, the 1 s sleep of the except
\* clause, or none once the loop has been left.

\* The except clause without the handler: the exception ends the thread.
on_exception_uncaught(h) ==
    [h EXCEPT !.sensor_thread = "exited"]

\* except Exception: time.sleep(1)
on_exception(h) ==
    [h EXCEPT !.sensor_thread = "backoff"]

\* The loop test written as while True.
loop_while_forever(h) ==
    [h EXCEPT !.sensor_thread = "read"]

\* while self.running:
loop_while(h) ==
    [h EXCEPT !.sensor_thread = IF h.running THEN "read" ELSE "exited"]

Loop(h, op) ==
    /\ hardware' = h
    /\ call' = [op |-> op, dt |-> 0]
    /\ UNCHANGED <<tamagotchi, now, seen, budget, port,
                 lcd_game, sad>>

LoopWhile ==
    /\ hardware.sensor_thread = "while"
    /\ Loop(loop_while(hardware), "loop_while")

\* _read_sensors, or an exception raised by it.
LoopRead ==
    /\ hardware.sensor_thread = "read"
    /\ \/ \E inject \in InjectSet \cup {NoInject} :
             Loop([read_sensors(hardware, now, inject)
                      EXCEPT !.sensor_thread = "process"], "loop_read")
       \/ Loop(on_exception(hardware), "loop_read_raised")

\* _process_sensor_data, or an exception raised by it.
LoopProcess ==
    /\ hardware.sensor_thread = "process"
    /\ \/ Loop([process_sensor_data(hardware, now)
                    EXCEPT !.sensor_thread = "sleep"], "loop_process")
       \/ Loop(on_exception(hardware), "loop_process_raised")

\* time.sleep(0.1) returns.
LoopSleep ==
    /\ hardware.sensor_thread = "sleep"
    /\ Loop([hardware EXCEPT !.sensor_thread = "while"], "loop_sleep")

\* time.sleep(1) of the except clause returns.
LoopBackoff ==
    /\ hardware.sensor_thread = "backoff"
    /\ Loop([hardware EXCEPT !.sensor_thread = "while"], "loop_backoff")

LoopStep ==
    \/ LoopWhile
    \/ LoopRead
    \/ LoopProcess
    \/ LoopSleep
    \/ LoopBackoff

\* cleanup(): clear the flag, then join the thread for at most a second.
Cleanup ==
    /\ hardware.cleanup = "not_called"
    /\ Loop([hardware EXCEPT !.running = FALSE, !.cleanup = "joining"],
            "cleanup")

\* join(timeout=1) returns: the thread has ended or the second is over.
CleanupReturn ==
    /\ hardware.cleanup = "joining"
    /\ Loop([hardware EXCEPT !.cleanup = "returned"], "cleanup_return")

NextLoop ==
    \/ LoopStep
    \/ Cleanup
    \/ CleanupReturn
    \/ SimulateMotion

\* The sampling thread is a thread of its own and its sleeps end: it is
\* scheduled again and again.
SpecLoop == Init /\ [][NextLoop]_vars /\ WF_vars(LoopStep)

\* --------------------------------------- LCD variant: the two threads run
\* The LCD game some time after its start: the pet as earlier updates and
\* interactions left it, the main thread about to call update(dt), the
\* button thread about to call the method of the button it read as pressed.
InitRace ==
    /\ now = 0
    /\ hardware = NewHardware(FALSE, 0)
    /\ tamagotchi = NewTamagotchi(0)
    /\ call = NoCall
    /\ seen = [is_picked_up |-> FALSE, shake_detected |-> FALSE]
    /\ budget = 0
    /\ port = NoPort
    /\ sad = NoSad
    /\ \E pressed \in {"feed", "pet", "play", "sleep"},
          happiness \in {80 * Milli, 95 * Milli, 5},
          energy \in {70 * Milli, 10 * Milli},
          sleep_mode \in BOOLEAN,
          message_timer \in {0, 50, 3 * Milli} :
        LET mem == [NewLcdPet EXCEPT !.happiness = happiness,
                                     !.energy = energy,
                                     !.sleep_mode = sleep_mode,
                                     !.message_timer = message_timer,
                                     !.message = IF message_timer > 0
                                                 THEN "Hello!" ELSE ""]
        IN  lcd_game = [running |-> TRUE, mem |-> mem, start |-> mem,
                        pressed |-> pressed,
                        main |-> NewThread, button |-> NewThread]

\* The main thread runs one load or store of update(dt).
MainStep ==
    /\ lcd_game.running
    /\ lcd_game.main.pc <= Len(lcd_update_program(LcdDt))
    /\ lcd_game' =
         [lcd_game EXCEPT
            !.mem = thread_step(lcd_game.mem, lcd_game.main,
                                lcd_update_program(LcdDt)).mem,
            !.main = thread_step(lcd_game.mem, lcd_game.main,
                                 lcd_update_program(LcdDt)).th]
    /\ call' = [op |-> "main_step", dt |-> 0]
    /\ UNCHANGED <<tamagotchi, hardware, now, seen, budget, port, sad>>

\* The button thread runs one load or store of the interaction.
ButtonStep ==
    /\ lcd_game.running
    /\ lcd_game.button.pc <=
         Len(button_loop(lcd_game.pressed, lcd_game.start.sleep_mode))
    /\ lcd_game' =
         [lcd_game EXCEPT
            !.mem = thread_step(lcd_game.mem, lcd_game.button,
                                button_loop(lcd_game.pressed,
                                            lcd_game.start.sleep_mode)).mem,
            !.button = thread_step(lcd_game.mem, lcd_game.button,
                                   button_loop(lcd_game.pressed,
                                               lcd_game.start.sleep_mode)).th]
    /\ call' = [op |-> "button_step", dt |-> 0]
    /\ UNCHANGED <<tamagotchi, hardware, now, seen, budget, port, sad>>

NextRace ==
    \/ MainStep
    \/ ButtonStep

SpecRace == InitRace /\ [][NextRace]_vars

\* ------------------------------------------- button+LED variant: it runs
\* Seconds between two iterations of stats_updater that the model tells
\* apart (the thread sleeps 0.5 s; iterations in between change nothing).
SadJumps == {1, 4, 10}

RandintSet ==
    [hungry : {5, 15}, happy : {3, 8}, health : {5, 10}]

ReadingSet == {NoReading, [found |-> TRUE, temp_c |-> 21500]}

InitSad ==
    /\ now = 1000
    /\ hardware = NewHardware(FALSE, 0)
    /\ tamagotchi = NewTamagotchi(0)
    /\ call = NoCall
    /\ seen = [is_picked_up |-> FALSE, shake_detected |-> FALSE]
    /\ budget = MaxSadSteps
    /\ port = NoPort
    /\ lcd_game = NoGame
    /\ sad = NewSad(1000)

SadStep(p, op, t) ==
    /\ sad.constructed
    /\ budget > 0
    /\ budget' = budget - 1
    /\ sad' = p
    /\ now' = t
    /\ call' = [op |-> op, dt |-> 0]
    /\ UNCHANGED <<tamagotchi, hardware, seen, port, lcd_game>>

StatsUpdater ==
    \E d \in SadJumps, rnd \in RandintSet, reading \in ReadingSet,
       sensor_value \in {0, 1}, interaction_type \in {1, 2, 3} :
        SadStep(stats_updater(sad, now + d, rnd, reading, sensor_value,
                              interaction_type),
                "stats_updater", now + d)

LeftPressed == SadStep(left_pressed(sad), "left_pressed", now)

RightPressed == SadStep(right_pressed(sad), "right_pressed", now)

SelectPressed == SadStep(select_pressed(sad), "select_pressed", now)

NextSad ==
    \/ StatsUpdater
    \/ LeftPressed
    \/ RightPressed
    \/ SelectPressed

SpecSad == InitSad /\ [][NextSad]_vars

\* ================================================================== claims
Stats == {"happiness", "energy", "hunger", "health", "comfort", "social"}

\* Total number of tones the buzzer was asked to play.
TonesPlayed(h) ==
    h.buzzer[400] + h.buzzer[600] + h.buzzer[800] + h.buzzer[1000]

\* C1: from the constructed pet, after any sequence of update, feed, pet,
\* play, put_to_sleep and wake_up under any snapshot, each of the six stats
\* lies in [0,100].
C1_ClampInvariant ==
    \A k \in Stats : tamagotchi[k] >= 0 /\ tamagotchi[k] <= 1000

\* An update has floored energy at 0 while feeding has capped hunger at 100.
C1_Witness ==
    /\ call.op = "update"
    /\ tamagotchi.hunger = 1000
    /\ tamagotchi.energy = 0

\* The first-match priority order, stated on the stats the resolution reads.
PriorityEmotion(p, temp) ==
    IF p.sleep_mode THEN "SLEEPY"
    ELSE IF p.health < 300 THEN "SAD"
    ELSE IF p.hunger < 200 THEN "ANGRY"
    ELSE IF p.comfort < 300 THEN (IF temp < 1800 THEN "COLD" ELSE "HOT")
    ELSE IF p.happiness > 800 /\ p.energy > 700 THEN "EXCITED"
    ELSE IF p.social < 300 THEN "SAD"
    ELSE "HAPPY"

\* C2: the emotion an update leaves is the first match of sleep_mode ->
\* SLEEPY, health<30 -> SAD, hunger<20 -> ANGRY, comfort<30 -> COLD below 18
\* degrees else HOT, happiness>80 and energy>70 -> EXCITED, social<30 -> SAD,
\* else HAPPY; an awake pet with health<30 and hunger<20 is SAD, never ANGRY.
C2_EmotionPriority ==
    [][call'.op = "update" =>
          /\ tamagotchi'.emotion =
                PriorityEmotion(before_emotion(S, now, call'.dt, 30).tamagotchi,
                                hardware.sensor_data.temperature)
          /\ (~tamagotchi'.sleep_mode /\ tamagotchi'.health < 300
                /\ tamagotchi'.hunger < 200) => tamagotchi'.emotion = "SAD"
      ]_vars

\* An update has ended with an awake pet low on both health and hunger.
C2_Witness ==
    /\ call.op = "update"
    /\ ~tamagotchi.sleep_mode
    /\ tamagotchi.health < 300
    /\ tamagotchi.hunger < 200
    /\ tamagotchi.emotion = "SAD"

\* What an update does around the pickup reward.
PickupFires == hardware.sensor_data.is_picked_up /\ ~seen.is_picked_up
ShakeFires == hardware.sensor_data.shake_detected /\ ~seen.shake_detected
Neglected ==
    /\ now - hardware.sensor_data.last_movement > 600
    /\ ~tamagotchi.sleep_mode
\* Nothing but the pickup branch writes the message in this update.
MessageQuiet ==
    /\ ~ShakeFires
    /\ ~Neglected
    /\ hardware.sensor_data.temperature >= 1000
    /\ hardware.sensor_data.temperature <= 3000
    /\ hardware.sensor_data.sound_level <= 80
    /\ tamagotchi'.sleep_mode = tamagotchi.sleep_mode

C4_Feed ==
    [][call'.op = "feed" =>
          /\ tamagotchi'.hunger = Min(1000, tamagotchi.hunger + 300)
          /\ tamagotchi'.happiness = Min(1000, tamagotchi.happiness + 100)
          /\ tamagotchi'.health = Min(1000, tamagotchi.health + 50)
          /\ tamagotchi'.last_fed = now
          /\ tamagotchi'.energy = tamagotchi.energy
          /\ tamagotchi'.comfort = tamagotchi.comfort
          /\ tamagotchi'.social = tamagotchi.social
          /\ tamagotchi'.sleep_mode = tamagotchi.sleep_mode
          /\ tamagotchi.hunger = 900 => tamagotchi'.hunger = 1000
      ]_vars

\* A pet has been fed from hunger 90 and its hunger reads 100.
C4_Witness ==
    /\ call.op = "feed"
    /\ tamagotchi.hunger = 1000
    /\ tamagotchi.last_fed = now
    /\ tamagotchi.last_interaction = now

\* What play() does apart from hunger.
PlayEffects ==
    /\ tamagotchi'.happiness = Min(1000, tamagotchi.happiness + 250)
    /\ tamagotchi'.social = Min(1000, tamagotchi.social + 200)
    /\ tamagotchi'.energy = Max(0, tamagotchi.energy - 150)
    /\ tamagotchi'.emotion = "PLAYFUL"
    /\ hardware'.servo.sim_angle = 90
    /\ tamagotchi'.health = tamagotchi.health
    /\ tamagotchi'.comfort = tamagotchi.comfort

\* C5 as stated: play() raises happiness by 25 and social by 20, lowers
\* hunger by 10 and energy by 15 (clamped), sets PLAYFUL and moves the servo;
\* health and comfort are unchanged.
C5_PlayLowersHunger ==
    [][call'.op = "play" =>
          /\ PlayEffects
          /\ tamagotchi'.hunger = Max(0, tamagotchi.hunger - 100)
      ]_vars

\* C5 as amended: play() raises happiness by 25 and social by 20, lowers
\* energy by 15 (clamped), sets PLAYFUL and moves the servo to 90; hunger,
\* health and comfort are unchanged.
C5_Play ==
    [][call'.op = "play" =>
          /\ PlayEffects
          /\ tamagotchi'.hunger = tamagotchi.hunger
      ]_vars

\* A pet has played: happiness capped at 100, energy down, hunger as
\* constructed.
C5_Witness ==
    /\ call.op = "play"
    /\ tamagotchi.emotion = "PLAYFUL"
    /\ tamagotchi.happiness = 1000
    /\ tamagotchi.energy = 550
    /\ tamagotchi.hunger = 600

\* C6: pet() changes only happiness (+20), comfort (+10) and social (+15);
\* put_to_sleep() changes only energy (+30) and sets sleep_mode; hunger,
\* energy and health (pet) and happiness, hunger, health, comfort and social
\* (sleep) keep their values.
C6_PetSleepFrame ==
    [][/\ call'.op = "pet" =>
             /\ tamagotchi'.happiness = Min(1000, tamagotchi.happiness + 200)
             /\ tamagotchi'.comfort = Min(1000, tamagotchi.comfort + 100)
             /\ tamagotchi'.social = Min(1000, tamagotchi.social + 150)
             /\ tamagotchi'.hunger = tamagotchi.hunger
             /\ tamagotchi'.energy = tamagotchi.energy
             /\ tamagotchi'.health = tamagotchi.health
             /\ tamagotchi'.sleep_mode = tamagotchi.sleep_mode
       /\ call'.op = "put_to_sleep" =>
             /\ tamagotchi'.energy = Min(1000, tamagotchi.energy + 300)
             /\ tamagotchi'.sleep_mode
             /\ tamagotchi'.happiness = tamagotchi.happiness
             /\ tamagotchi'.hunger = tamagotchi.hunger
             /\ tamagotchi'.health = tamagotchi.health
             /\ tamagotchi'.comfort = tamagotchi.comfort
             /\ tamagotchi'.social = tamagotchi.social
      ]_vars

\* An awake pet with energy 49.5 has been put to sleep.
C6_Witness ==
    /\ call.op = "put_to_sleep"
    /\ tamagotchi.sleep_mode
    /\ tamagotchi.energy = 795
    /\ tamagotchi.emotion = "SLEEPY"

\* C7: wake_up() on an awake pet changes nothing (stats, emotion, message,
\* timestamps, actuators); on a sleeping pet it clears sleep_mode and adds
\* +10 energy and +5 happiness, clamped.
C7_WakeUp ==
    [][call'.op = "wake_up" =>
          IF ~tamagotchi.sleep_mode
          THEN tamagotchi' = tamagotchi /\ hardware' = hardware
          ELSE /\ ~tamagotchi'.sleep_mode
               /\ tamagotchi'.energy = Min(1000, tamagotchi.energy + 100)
               /\ tamagotchi'.happiness = Min(1000, tamagotchi.happiness + 50)
      ]_vars

\* wake_up() has been called on an awake pet.
C7_Witness ==
    /\ call.op = "wake_up"
    /\ ~tamagotchi.sleep_mode
    /\ tamagotchi.message = "Hello! I'm your smart companion!"
    /\ TonesPlayed(hardware) = 0

\* C8: every interaction that takes effect (feed, pet, play, put_to_sleep,
\* wake_up on a sleeping pet) stamps last_interaction with the current time,
\* sets a message with a positive TTL and plays exactly one tone.
C8_InteractionStamps ==
    [][(\/ call'.op \in {"feed", "pet", "play", "put_to_sleep"}
        \/ call'.op = "wake_up" /\ tamagotchi.sleep_mode) =>
          /\ tamagotchi'.last_interaction = now
          /\ tamagotchi'.message # ""
          /\ tamagotchi'.message_timer > 0
          /\ TonesPlayed(hardware') = TonesPlayed(hardware) + 1
      ]_vars

\* The time-of-day class of a light level, by strict thresholds.
LightClass(light) ==
    IF light > 600 THEN "DAY"
    ELSE IF 200 < light /\ light <= 600 THEN "DUSK"
    ELSE IF 50 < light /\ light <= 200 THEN "DAWN"
    ELSE "NIGHT"

LightBoundaries(h) ==
    /\ h.sensor_data.light_level = 600 => get_environment_state(h) = "DUSK"
    /\ h.sensor_data.light_level = 601 => get_environment_state(h) = "DAY"
    /\ h.sensor_data.light_level = 0 => get_environment_state(h) = "NIGHT"

\* C9 as stated: get_environment_state() classifies the snapshot light level
\* by strict thresholds (>600 DAY, >200 DUSK, >50 DAWN, else NIGHT); 600 gives
\* DUSK, 601 DAY, 0 NIGHT.
C9_LightAlways ==
    /\ get_environment_state(hardware) = LightClass(hardware.sensor_data.light_level)
    /\ LightBoundaries(hardware)

\* C9 as amended: the same, for a manager constructed with simulation = false.
C9_Light ==
    ~hardware.simulation =>
        /\ get_environment_state(hardware) = LightClass(hardware.sensor_data.light_level)
        /\ LightBoundaries(hardware)

\* The snapshot holds light 600 and the class read from it is DUSK.
C9_Witness ==
    /\ ~hardware.simulation
    /\ hardware.sensor_data.light_level = 600
    /\ get_environment_state(hardware) = "DUSK"

\* The season class of a temperature, by strict thresholds.
TempClass(temp) ==
    IF temp > 2500 THEN "SUMMER"
    ELSE IF 1500 < temp /\ temp <= 2500 THEN "SPRING"
    ELSE IF 500 < temp /\ temp <= 1500 THEN "AUTUMN"
    ELSE "WINTER"

TempBoundaries(h) ==
    /\ h.sensor_data.temperature = 2500 => get_season(h) = "SPRING"
    /\ h.sensor_data.temperature = 2501 => get_season(h) = "SUMMER"
    /\ h.sensor_data.temperature = 500 => get_season(h) = "WINTER"
    /\ h.sensor_data.temperature = 501 => get_season(h) = "AUTUMN"

\* C10 as stated: get_season() classifies the snapshot temperature by strict
\* thresholds (>25 SUMMER, >15 SPRING, >5 AUTUMN, else WINTER); 25 gives
\* SPRING, 25.01 SUMMER, 5 WINTER, 5.01 AUTUMN.
C10_SeasonAlways ==
    /\ get_season(hardware) = TempClass(hardware.sensor_data.temperature)
    /\ TempBoundaries(hardware)

\* C10 as amended: the same, for a manager constructed with simulation = false.
C10_Season ==
    ~hardware.simulation =>
        /\ get_season(hardware) = TempClass(hardware.sensor_data.temperature)
        /\ TempBoundaries(hardware)

\* The snapshot holds 25.01 degrees and the season read from it is SUMMER.
C10_Witness ==
    /\ ~hardware.simulation
    /\ hardware.sensor_data.temperature = 2501
    /\ get_season(hardware) = "SUMMER"

\* C11 as stated: an update called with sleep_mode = false and
\* now - last_movement > 600 ends with emotion SAD and with social lower than
\* before (for social > 0).
C11_NeglectSad ==
    [][(/\ call'.op = "update"
        /\ ~tamagotchi.sleep_mode
        /\ now - hardware.sensor_data.last_movement > 600
        /\ tamagotchi.social > 0) =>
          /\ tamagotchi'.emotion = "SAD"
          /\ tamagotchi'.social < tamagotchi.social
      ]_vars

\* The flags that the acceleration stored in a snapshot calls for.
PickedUpOf(accel) == Abs(accel.z) < 80 \/ Abs(accel.z) > 110
ShakenOf(accel) == Abs(accel.x) + Abs(accel.y) > 30

\* C12: after every completed sampling tick is_picked_up = (|z| < 8 or
\* |z| > 11) and shake_detected = (|x| + |y| > 3) for the acceleration of the
\* same snapshot, and if either flag is true last_movement was stamped in
\* that tick.
C12_FlagsMatch ==
    call.op = "sensor_tick" =>
        LET sd == hardware.sensor_data
        IN  /\ sd.is_picked_up = PickedUpOf(sd.acceleration)
            /\ sd.shake_detected = ShakenOf(sd.acceleration)
            /\ (sd.is_picked_up \/ sd.shake_detected) => sd.last_movement = now

\* A tick without forced or injected motion has found the device shaken
\* (x and y still 3.5, z at rest) and stamped last_movement.
C12_Witness ==
    /\ call.op = "sensor_tick"
    /\ hardware.sensor_data.acceleration = [x |-> 35, y |-> 35, z |-> 98]
    /\ hardware.sensor_data.shake_detected
    /\ ~hardware.sensor_data.is_picked_up
    /\ now > 0
    /\ hardware.sensor_data.last_movement = now

\* C13: the first tick that finds simulate_motion_flag set writes the
\* acceleration (3.5, 3.5, 12.0), stamps last_movement, clears the flag and
\* ends with is_picked_up and shake_detected true; the flag is clear after
\* every tick, so one trigger is consumed by one tick.
C13_SimulateMotionOneShot ==
    [][call'.op = "sensor_tick" =>
          /\ ~hardware'.simulate_motion_flag
          /\ hardware.simulate_motion_flag =>
               /\ hardware'.sensor_data.acceleration =
                     [x |-> 35, y |-> 35, z |-> 120]
               /\ hardware'.sensor_data.last_movement = now
               /\ hardware'.sensor_data.is_picked_up
               /\ hardware'.sensor_data.shake_detected
      ]_vars

\* A tick has consumed a simulate-motion trigger.
C13_Witness ==
    /\ call.op = "sensor_tick"
    /\ ~hardware.simulate_motion_flag
    /\ hardware.sensor_data.acceleration = [x |-> 35, y |-> 35, z |-> 120]
    /\ hardware.sensor_data.is_picked_up
    /\ hardware.sensor_data.shake_detected
    /\ now > 0
    /\ hardware.sensor_data.last_movement = now

\* C16: a simulated port answers its fixed default until its own simulated
\* value is set; no sampling tick, forced or injected motion included,
\* changes what a port read returns.
C16_TickLeavesPorts ==
    [][call'.op = "sensor_tick" =>
          /\ imu_read_acceleration(hardware') = imu_read_acceleration(hardware)
          /\ light_sensor_read(hardware') = light_sensor_read(hardware)
          /\ temp_sensor_read(hardware') = temp_sensor_read(hardware)
          /\ sound_sensor_read(hardware') = sound_sensor_read(hardware)
      ]_vars

\* The colour table of the LED.
ColourOf(emotion) ==
    CASE emotion = "HAPPY"   -> <<0, 255, 0>>
      [] emotion = "SAD"     -> <<0, 0, 255>>
      [] emotion = "ANGRY"   -> <<255, 0, 0>>
      [] emotion = "SLEEPY"  -> <<128, 0, 128>>
      [] emotion = "EXCITED" -> <<255, 255, 0>>
      [] emotion = "COLD"    -> <<0, 255, 255>>
      [] emotion = "HOT"     -> <<255, 128, 0>>
      [] emotion = "SCARED"  -> <<255, 0, 255>>
      [] emotion = "PLAYFUL" -> <<0, 255, 128>>
      [] emotion = "NEUTRAL" -> <<255, 255, 255>>

\* C19: at the end of every update the LED shows the table colour of the
\* pet's emotion, at brightness 0.1 if sleep_mode is true and 0.3 otherwise.
C19_LedFollowsEmotion ==
    [][call'.op = "update" =>
          /\ hardware'.led.sim_color = ColourOf(tamagotchi'.emotion)
          /\ hardware'.led.sim_brightness =
                (IF tamagotchi'.sleep_mode THEN 1 ELSE 3)
      ]_vars

\* An update has ended with the pet asleep and the LED dim purple.
C19_Witness ==
    /\ call.op = "update"
    /\ tamagotchi.sleep_mode
    /\ tamagotchi.emotion = "SLEEPY"
    /\ hardware.led = [sim_color |-> <<128, 0, 128>>, sim_brightness |-> 1]

\* C20 as stated: an update called with snapshot sound_level > 80 ends with
\* emotion SCARED and with happiness reduced (by 5, floored at 0, before the
\* baseline decay).
C20_LoudScared ==
    [][(call'.op = "update" /\ hardware.sensor_data.sound_level > 80) =>
          /\ tamagotchi'.emotion = "SCARED"
          /\ \/ tamagotchi'.happiness < tamagotchi.happiness
             \/ tamagotchi'.happiness = 0
      ]_vars

\* C14: an exception raised in the read or the derive phase is swallowed,
\* the tick is abandoned, the loop is left only with the stop flag set, and
\* while the flag is not set another tick follows every error.
C14_LoopSurvivesErrors ==
    /\ [][/\ hardware'.sensor_thread = "exited" => ~hardware.running
          /\ call'.op \in {"loop_read_raised", "loop_process_raised"} =>
                hardware'.sensor_thread = "backoff"
         ]_vars
    /\ [](hardware.sensor_thread = "backoff" =>
             <>(hardware.sensor_thread = "read" \/ ~hardware.running))

\* A tick has been abandoned by an exception while the flag is not set.
C14_Witness ==
    /\ call.op = "loop_process_raised"
    /\ hardware.sensor_thread = "backoff"
    /\ hardware.running

\* C15: once cleanup() has cleared the flag the loop eventually sees it and
\* ends, wherever the thread stood (tick, sleep or backoff), and having ended
\* it starts no tick again.
C15_CooperativeShutdown ==
    /\ [](~hardware.running => <>(hardware.sensor_thread = "exited"))
    /\ [][hardware.sensor_thread = "exited" =>
             hardware'.sensor_thread = "exited"]_vars

\* The thread has left the loop after cleanup() cleared the flag.
C15_Witness ==
    /\ ~hardware.running
    /\ hardware.cleanup # "not_called"
    /\ hardware.sensor_thread = "exited"
    /\ call.op = "loop_while"

\* C17: a port is real iff simulation is false, a handle was supplied and
\* the driver could be created; in every other case (simulation set, no
\* handle, driver library missing, driver creation failing) the constructor
\* completes and the port is simulated; a read of a simulated port never
\* raises.
C17_PortMode ==
    [][/\ \A kind \in PortKinds, simulation \in BOOLEAN, handle \in BOOLEAN :
            \A driver \in DriverOutcomes(kind) :
               PortConstructWith(kind, simulation, handle, driver) =>
                  port'.mode = (IF ~simulation /\ handle /\ driver = "ok"
                                THEN "real" ELSE "simulated")
       /\ (call'.op = "port_read" /\ port.mode = "simulated") =>
             port'.result = "returned"
      ]_vars

\* The angle a servo port holds: the driver's in real mode, sim_angle
\* otherwise.
AppliedAngle(p) == IF p.mode = "real" THEN p.angle ELSE p.sim

\* C18: after move(a) the servo's recorded or applied angle is
\* max(0, min(180, a)), in real and in simulated mode alike.
C18_ServoClamp ==
    [][\A a \in MoveAngles :
          ServoMoveTo(a) => AppliedAngle(port') = Max(0, Min(180, a))
      ]_vars

\* C21: an update of an awake pet that reads a snapshot temperature below
\* 10 degrees (with sound_level <= 80) ends with emotion COLD and the cold
\* message; one that reads a temperature above 30 degrees ends with emotion
\* HOT and the hot message.
C21_ExtremeTemperature ==
    [][(/\ call'.op = "update"
        /\ ~tamagotchi.sleep_mode
        /\ hardware.sensor_data.sound_level <= 80) =>
          /\ hardware.sensor_data.temperature < 10 * 100 =>
                /\ tamagotchi'.emotion = "COLD"
                /\ tamagotchi'.message = "Brrr! It's so cold!"
          /\ hardware.sensor_data.temperature > 30 * 100 =>
                /\ tamagotchi'.emotion = "HOT"
                /\ tamagotchi'.message = "It's too hot! I need some shade!"
      ]_vars

\* C22 as stated: an update of an awake pet at NIGHT with energy below 50
\* ends asleep with emotion SLEEPY; an update called with energy at least
\* 50, or with an environment other than NIGHT, never puts the pet to sleep.
C22_AutoSleepAtCall ==
    [][(call'.op = "update" /\ ~tamagotchi.sleep_mode) =>
          LET night == get_environment_state(hardware) = "NIGHT"
          IN  /\ (night /\ tamagotchi.energy < 500) =>
                    /\ tamagotchi'.sleep_mode
                    /\ tamagotchi'.emotion = "SLEEPY"
              /\ (~night \/ tamagotchi.energy >= 500) =>
                    ~tamagotchi'.sleep_mode
      ]_vars

\* The energy the day / night test reads: the shake reaction of the same
\* update has already taken its 5 points.
EnergyAtNightTest ==
    IF ShakeFires THEN Max(0, tamagotchi.energy - 50) ELSE tamagotchi.energy

\* C22 amended: an update of an awake pet at NIGHT ends asleep, with emotion
\* SLEEPY, exactly when the energy is below 50 after the shake reaction of
\* that update; with an environment other than NIGHT the update never puts
\* the pet to sleep.
C22_AutoSleep ==
    [][(call'.op = "update" /\ ~tamagotchi.sleep_mode) =>
          LET night == get_environment_state(hardware) = "NIGHT"
          IN  /\ tamagotchi'.sleep_mode <=> (night /\ EnergyAtNightTest < 500)
              /\ tamagotchi'.sleep_mode => tamagotchi'.emotion = "SLEEPY"
      ]_vars

\* An update has put to sleep a pet whose energy was 52 when it was called:
\* the shake reaction of that update brought it below 50.
C22_Witness ==
    /\ call.op = "update"
    /\ tamagotchi.sleep_mode
    /\ tamagotchi.message = "It's dark and I'm tired. Time for sleep!"
    /\ hardware.buzzer[1000] = 1
    /\ tamagotchi.energy = 520 - 50 + 50 * call.dt

\* The stats an update of a sleeping pet would leave if the day / night
\* branch did not wake it: every other step of update(dt) applied in order
\* (a sleeping pet has no baseline decay).
WithoutWake(dt) ==
    process_time_based_needs(
      process_sound(
        process_temperature(
          process_movement_detection(
            update_message_timer(S, dt),
            hardware.sensor_data, now, 90),
          hardware.sensor_data.temperature),
        hardware.sensor_data.sound_level),
      now, dt).tamagotchi

\* C23: an update of a sleeping pet with environment DAY ends awake, with
\* energy and happiness each higher than the same update would leave them
\* without the wake (or at the cap of 100).
C23_AutoWakeBump ==
    [][(/\ call'.op = "update"
        /\ tamagotchi.sleep_mode
        /\ get_environment_state(hardware) = "DAY") =>
          LET w == WithoutWake(call'.dt)
          IN  /\ ~tamagotchi'.sleep_mode
              /\ tamagotchi'.energy > w.energy \/ tamagotchi'.energy = 1000
              /\ tamagotchi'.happiness > w.happiness
                    \/ tamagotchi'.happiness = 1000
      ]_vars

\* C24: an update called while now - last_fed <= 1800 leaves hunger
\* unchanged, and one called later lowers it by 10 * dt (not below 0);
\* feed() stamps last_fed, so the window of 1800 s starts again at every
\* feed.
C24_HungerWindow ==
    [][/\ call'.op = "update" =>
             tamagotchi'.hunger =
                IF now - tamagotchi.last_fed <= 1800
                THEN tamagotchi.hunger
                ELSE Max(0, tamagotchi.hunger - 100 * call'.dt)
       /\ call'.op = "feed" => tamagotchi'.last_fed = now
      ]_vars

\* After 1801 s without food an update has lowered hunger by 10, the pet
\* was fed, and the next update has left hunger alone.
C24_Witness ==
    /\ call.op = "update"
    /\ tamagotchi.last_fed = 1801
    /\ now = 1801
    /\ tamagotchi.hunger = 600 - 100 + 300

\* C25: baseline decay is applied before emotion resolution and the LED
\* feedback comes last: the emotion and the LED colour an update leaves are
\* the priority resolution of the stats as that update leaves them.
C25_ResolutionAfterDecay ==
    [][call'.op = "update" =>
          LET resolved == PriorityEmotion(tamagotchi',
                                          hardware'.sensor_data.temperature)
          IN  /\ tamagotchi'.emotion = resolved
              /\ hardware'.led.sim_color = ColourOf(resolved)
      ]_vars

\* C26: whenever a reader can read the snapshot, is_picked_up and
\* shake_detected are the flags derived from the acceleration the snapshot
\* holds: also after the read phase of a tick before its derive phase, and
\* after a tick abandoned by an exception.
C26_SnapshotNeverTorn ==
    [][call'.op \in {"loop_read", "loop_process", "loop_read_raised",
                     "loop_process_raised", "loop_sleep", "loop_backoff"} =>
          LET d == hardware'.sensor_data
          IN  /\ d.is_picked_up = PickedUpOf(d.acceleration)
              /\ d.shake_detected = ShakenOf(d.acceleration)
      ]_vars

\* C27: in a system built as the front-ends build it, the override
\* selector decides the classification: after time_next (season_next) has
\* advanced the selector, get_environment_state() (get_season()) returns
\* the selected value; the selector goes through the four values in order
\* and is back at the first after four advances.
C27_OverrideSelects ==
    [][/\ call'.op = "time_next" =>
             /\ hardware'.sim_time_idx = (hardware.sim_time_idx + 1) % 4
             /\ hardware'.sim_time = sim_time_list[hardware'.sim_time_idx + 1]
             /\ get_environment_state(hardware') = hardware'.sim_time
       /\ call'.op = "season_next" =>
             /\ hardware'.sim_season_idx = (hardware.sim_season_idx + 1) % 4
             /\ hardware'.sim_season =
                   sim_season_list[hardware'.sim_season_idx + 1]
             /\ get_season(hardware') = hardware'.sim_season
      ]_vars

\* C28: the sampling tick that follows an adjustment of the simulated
\* light, temperature or sound level leaves the adjusted value in the
\* snapshot.
C28_AdjustDrivesSnapshot ==
    [][call'.op = "sensor_tick" =>
          /\ call.op \in {"light_up", "light_down"} =>
                hardware'.sensor_data.light_level = hardware.sim_light_level
          /\ call.op \in {"temp_up", "temp_down"} =>
                hardware'.sensor_data.temperature = hardware.sim_temperature
          /\ call.op \in {"sound_up", "sound_down"} =>
                hardware'.sensor_data.sound_level = hardware.sim_sound_level
      ]_vars

\* No step of this update after the shake branch writes the message.
NoLaterMessage ==
    /\ ~Neglected
    /\ hardware.sensor_data.temperature >= 1000
    /\ hardware.sensor_data.temperature <= 3000
    /\ hardware.sensor_data.sound_level <= 80
    /\ tamagotchi'.sleep_mode = tamagotchi.sleep_mode

\* C29: the shake reaction (happiness +8, energy -5, message, one 1000 Hz
\* tone, emotion PLAYFUL, servo moved to an angle in [30, 150]) fires in an
\* update exactly when that update reads shake_detected = true and the
\* previous update did not: once per run of updates reading true, and again
\* only after an update has read false.
C29_ShakeEdge ==
    [][call'.op = "update" =>
          LET dt == call'.dt
              h1 == IF PickupFires THEN Min(1000, tamagotchi.happiness + 50)
                    ELSE tamagotchi.happiness
              h2 == IF ShakeFires THEN Min(1000, h1 + 80) ELSE h1
              h3 == IF hardware.sensor_data.sound_level > 80
                    THEN Max(0, h2 - 50) ELSE h2
              e1 == IF ShakeFires THEN Max(0, tamagotchi.energy - 50)
                    ELSE tamagotchi.energy
              e2 == IF tamagotchi.sleep_mode
                       /\ get_environment_state(hardware) = "DAY"
                    THEN Min(1000, e1 + 200) ELSE e1
              awake == ~tamagotchi'.sleep_mode
          IN  /\ hardware'.buzzer[1000] =
                    hardware.buzzer[1000] + (IF ShakeFires THEN 1 ELSE 0)
              /\ tamagotchi'.happiness =
                    (IF awake THEN Max(0, h3 - 3 * dt) ELSE h3)
              /\ tamagotchi'.energy =
                    (IF awake THEN Max(0, e2 - 20 * dt)
                     ELSE Min(1000, e2 + 50 * dt))
              /\ ShakeFires =>
                    /\ tamagotchi'.emotion = "PLAYFUL"
                    /\ tamagotchi'.last_interaction = now
                    /\ hardware'.servo.sim_angle \in 30..150
              /\ ~ShakeFires =>
                    hardware'.servo.sim_angle = hardware.servo.sim_angle
              /\ (ShakeFires /\ NoLaterMessage) =>
                    /\ tamagotchi'.message = "That's fun! Shake me more!"
                    /\ tamagotchi'.message_timer = 20
      ]_vars

\* C30: auto-wake answers the change to DAY, not DAY holding: a pet put to
\* sleep with put_to_sleep() while the environment is DAY is still asleep
\* after the update that follows, the environment being DAY throughout.
C30_DaySleepLasts ==
    [][(/\ call.op = "put_to_sleep"
        /\ call'.op = "update"
        /\ get_environment_state(hardware) = "DAY"
        /\ get_environment_state(hardware') = "DAY") =>
          tamagotchi'.sleep_mode
      ]_vars

\* C31: an update that reads a temperature below 18 or above 26 degrees
\* lowers comfort by 0.5 (not below 0) whatever dt is; one that reads a
\* temperature from 18 to 26 degrees, both included, raises comfort by 0.2
\* (not above 100).
C31_ComfortBand ==
    [][call'.op = "update" =>
          LET temp == hardware.sensor_data.temperature
          IN  tamagotchi'.comfort =
                 IF temp < 18 * 100 \/ temp > 26 * 100
                 THEN Max(0, tamagotchi.comfort - 5)
                 ELSE Min(1000, tamagotchi.comfort + 2)
      ]_vars

\* An update with dt = 100 has read exactly 26 degrees and raised comfort
\* from 99.9 to the cap.
C31_Witness ==
    /\ call = [op |-> "update", dt |-> 100]
    /\ hardware.sensor_data.temperature = 26 * 100
    /\ tamagotchi.comfort = 1000

\* C32: update and the five interaction operations leave every field of
\* the sensor snapshot as it was (they read it and drive the actuators);
\* the sampling tick leaves every field of the pet as it was.
C32_Ownership ==
    [][/\ call'.op \in {"update", "feed", "pet", "play", "put_to_sleep",
                        "wake_up"} =>
             /\ hardware'.sensor_data = hardware.sensor_data
             /\ hardware'.simulate_motion_flag = hardware.simulate_motion_flag
       /\ call'.op = "sensor_tick" => tamagotchi' = tamagotchi
      ]_vars

\* An update has paid the pickup and the shake reward, moved the servo and
\* sounded both tones, and the snapshot still holds both flags.
C32_Witness ==
    /\ call.op = "update"
    /\ hardware.buzzer[800] = 1
    /\ hardware.buzzer[1000] = 1
    /\ hardware.servo.sim_angle = 150
    /\ hardware.sensor_data.is_picked_up
    /\ hardware.sensor_data.shake_detected

C36_PickupOnlyByMotion ==
    [][\A inject \in InjectSet \cup {NoInject} :
          SensorTickWith(inject) =>
             LET lifted == \/ hardware.simulate_motion_flag
                           \/ inject.injected /\ inject.z > 110
             IN  /\ hardware'.sensor_data.is_picked_up <=> lifted
                 /\ ~lifted => hardware'.sensor_data.acceleration.z = 98
      ]_vars

\* C36 amended: is_picked_up is true after a tick exactly when the tick
\* consumed the simulate-motion flag or injected z > 11; a tick that
\* neither consumed the flag nor injected ends with z = 9.8 whatever the
\* IMU port held, and a tick that injected ends with the injected z.
C36_PickupByMotion ==
    [][\A inject \in InjectSet \cup {NoInject} :
          SensorTickWith(inject) =>
             LET forced == hardware.simulate_motion_flag
                 lifted == forced \/ (inject.injected /\ inject.z > 110)
             IN  /\ hardware'.sensor_data.is_picked_up <=> lifted
                 /\ hardware'.sensor_data.acceleration.z =
                       IF forced THEN 120
                       ELSE IF inject.injected THEN inject.z
                       ELSE 98
      ]_vars

\* A tick without forced or injected motion has found z = 12 in the IMU
\* port's dictionary, left z = 9.8 and cleared is_picked_up.
C36_Witness ==
    /\ call.op = "sensor_tick"
    /\ seen.is_picked_up
    /\ hardware.sensor_data.acceleration.z = 98
    /\ ~hardware.sensor_data.is_picked_up

\* C35: the emotion an update leaves does not depend on the emotion the
\* pet had before: a second pet with the same stats, sleep_mode, timestamps
\* and shown-flags, updated with the same dt on the same snapshot, ends
\* with the same emotion whichever emotion it started with.
C35_EmotionDeterministic ==
    [][call'.op = "update" =>
          \A emotion \in EmotionState, angle \in ServoAngles :
             LET twin == [S EXCEPT !.tamagotchi.emotion = emotion]
             IN  update(twin, now, call'.dt, angle).tamagotchi.emotion =
                    tamagotchi'.emotion
      ]_vars

\* An update has followed play(), which had left the emotion PLAYFUL, and
\* has ended with the emotion the stats resolve to.
C35_Witness ==
    /\ call.op = "update"
    /\ tamagotchi.message = "Playing is the best! Let's do it again!"
    /\ tamagotchi.emotion = "EXCITED"

\* C37: between operations, sleep_mode = true implies emotion = SLEEPY.
C37_AsleepIsSleepy ==
    tamagotchi.sleep_mode => tamagotchi.emotion = "SLEEPY"

\* C38: once cleanup() has returned, the sampling thread writes nothing
\* more to the sensor snapshot, wherever the thread stood when the stop
\* flag was set.
C38_NoWriteAfterCleanup ==
    [][hardware.cleanup = "returned" =>
          hardware'.sensor_data = hardware.sensor_data]_vars

\* Two pets agree on the six stats and on sleep_mode.
SameStats(p, q) ==
    /\ \A stat \in Stats : p[stat] = q[stat]
    /\ p.sleep_mode = q.sleep_mode

\* C33: the LCD and the ST7789 variant agree with the canonical engine:
\* on the stats, sleep_mode and temperature the canonical update resolves,
\* their emotion chain gives the emotion the canonical update leaves; their
\* feed, pet, play, put_to_sleep and wake_up leave the stats and sleep_mode
\* the canonical operation leaves.
C33_VariantsAgree ==
    [][/\ call'.op = "update" =>
             LET x == before_emotion(S, now, call'.dt, 30)
             IN  /\ lcd_resolve_emotion(x).tamagotchi.emotion =
                       tamagotchi'.emotion
                 /\ st7789_resolve_emotion(x).tamagotchi.emotion =
                       tamagotchi'.emotion
       /\ call'.op = "feed" =>
             /\ SameStats(lcd_feed(S, now).tamagotchi, tamagotchi')
             /\ SameStats(st7789_feed(S, now).tamagotchi, tamagotchi')
       /\ call'.op = "pet" =>
             /\ SameStats(lcd_pet(S, now).tamagotchi, tamagotchi')
             /\ SameStats(st7789_pet(S, now).tamagotchi, tamagotchi')
       /\ call'.op = "play" =>
             /\ SameStats(lcd_play(S, now).tamagotchi, tamagotchi')
             /\ SameStats(st7789_play(S, now).tamagotchi, tamagotchi')
       /\ call'.op = "put_to_sleep" =>
             /\ SameStats(lcd_put_to_sleep(S, now).tamagotchi, tamagotchi')
             /\ SameStats(st7789_put_to_sleep(S, now).tamagotchi, tamagotchi')
       /\ call'.op = "wake_up" =>
             /\ SameStats(lcd_wake_up(S).tamagotchi, tamagotchi')
             /\ SameStats(st7789_wake_up(S).tamagotchi, tamagotchi')
      ]_vars

\* play() has taken a pet with happiness 98 to the cap and energy 49.5 to
\* 34.5, as the variants' play does.
C33_Witness ==
    /\ call.op = "play"
    /\ tamagotchi.happiness = 1000
    /\ tamagotchi.energy = 495 - 150
    /\ tamagotchi.hunger = 50

\* Both threads of the LCD game have run their method to its end.
RaceDone ==
    /\ lcd_game.running
    /\ lcd_game.main.pc > Len(lcd_update_program(LcdDt))
    /\ lcd_game.button.pc >
         Len(button_loop(lcd_game.pressed, lcd_game.start.sleep_mode))

\* The pet after update then the interaction, each run whole.
UpdateThenButton ==
    method_run(method_run(lcd_game.start, lcd_update_program(LcdDt), 1),
               button_loop(lcd_game.pressed, lcd_game.start.sleep_mode), 1)

\* The pet after the interaction then update, each run whole.
ButtonThenUpdate ==
    method_run(method_run(lcd_game.start,
                          button_loop(lcd_game.pressed,
                                      lcd_game.start.sleep_mode), 1),
               lcd_update_program(LcdDt), 1)

\* C39: in the LCD variant, for every interleaving of one interaction of the
\* button thread with one update of the main thread, each stat afterwards
\* has the value one of the two serial orders gives it.
C39_NoLostUpdate ==
    RaceDone =>
        \A stat \in Stats :
            \/ lcd_game.mem[stat] = UpdateThenButton[stat]
            \/ lcd_game.mem[stat] = ButtonThenUpdate[stat]

\* The LEDs of the button+LED pet show state: green alone for "happy", red
\* alone for "angry", neither for "sleep".
LedShows(p, state) ==
    /\ p.led_green > 0 <=> state = "happy"
    /\ p.led_red > 0 <=> state = "angry"

\* C40: in the button+LED variant, after __init__ and after every iteration
\* of stats_updater (the callers of update_led_eyes), whatever feed, play,
\* heal, update_stats and IR reactions came before, the red and the green
\* LED are not both lit and the lit one is the one get_led_state() names for
\* the stats and forced emotion of that moment.
C40_LedEyes ==
    /\ sad.constructed /\ call = NoCall =>
          LedShows(sad, sad_get_led_state(sad))
    /\ [][call'.op = "stats_updater" =>
             /\ ~(sad'.led_red > 0 /\ sad'.led_green > 0)
             /\ LedShows(sad', sad_get_led_state(sad'))]_vars

\* An iteration of stats_updater has switched the eyes from green to red.
C40_Witness ==
    /\ call.op = "stats_updater"
    /\ sad.current_led_state = "angry"
    /\ sad.led_red = LED_BRIGHTNESS
    /\ sad.led_green = 0
    /\ sad.hungry < 20
    /\ sad.forced_emotion = "None"

====
